---- MODULE Spec2Model ----
(***************************************************************************)
(* A model of nb-curator (src/nb_curator): the manifest ("spec") schema    *)
(* validation, the manifest's outputs store, the repository manager and    *)
(* the NotebookCurator workflow.                                           *)
(*                                                                         *)
(* Level of the model.  The sources are a snapshot in the middle of a      *)
(* refactoring: curator.py reads config.clone, config.compile,             *)
(* config.install, config.test and config.cleanup where CuratorConfig      *)
(* declares clone_repos, compile_env, install_env, test_notebooks and      *)
(* delete_repos, and several callees are called with fewer arguments than  *)
(* they declare.  The model follows the control flow and the data flow as  *)
(* written and resolves each such name to the member it evidently means;   *)
(* the outcome of every external tool is a nondeterministic choice.        *)
(* Strings that the code slices, splits or compares (URLs and paths) are   *)
(* sequences of one-character strings, so that the string operations are   *)
(* computed and not assumed.                                               *)
(***************************************************************************)
EXTENDS Integers, Sequences, FiniteSets, TLC

(***************************************************************************)
(* Bounds of the model.                                                    *)
(***************************************************************************)
\* the largest number of selection rules (selected_notebooks entries) of a manifest
MaxRules == 2

(***************************************************************************)
(* Python str and pathlib operations, on sequences of characters.          *)
(***************************************************************************)
\* the characters that occur in the model's strings, in code-point order
Chars == <<"-", ".", "/", ":", "a", "b", "c", "d", "e", "f", "g", "h", "i",
           "j", "k", "l", "m", "n", "o", "p", "q", "r", "s", "t", "u", "v",
           "w", "x", "y", "z">>

\* ord(c), up to an order-preserving renumbering
Ord(c) == CHOOSE i \in 1..Len(Chars) : Chars[i] = c

\* s < t for two str values: the first differing code point decides, a proper
\* prefix is smaller
RECURSIVE StrLess(_, _)
StrLess(s, t) ==
    IF t = <<>> THEN FALSE
    ELSE IF s = <<>> THEN TRUE
    ELSE IF Head(s) # Head(t) THEN Ord(Head(s)) < Ord(Head(t))
    ELSE StrLess(Tail(s), Tail(t))

\* s.startswith(p)
StartsWith(s, p) == Len(s) >= Len(p) /\ SubSeq(s, 1, Len(p)) = p

\* s[n:]
SliceFrom(s, n) == SubSeq(s, n + 1, Len(s))

\* s.replace(old, ""): every non-overlapping occurrence of old, left to right
RECURSIVE StrRemove(_, _)
StrRemove(s, old) ==
    IF Len(s) < Len(old) THEN s
    ELSE IF StartsWith(s, old) THEN StrRemove(SliceFrom(s, Len(old)), old)
    ELSE <<Head(s)>> \o StrRemove(Tail(s), old)

\* s.split("/")[-1], which is also os.path.basename(s)
RECURSIVE LastSegment(_)
LastSegment(s) ==
    IF s = <<>> THEN <<>>
    ELSE IF s[Len(s)] = "/" THEN <<>>
    ELSE LastSegment(SubSeq(s, 1, Len(s) - 1)) \o <<s[Len(s)]>>

\* sorted(list(set(xs))) for a collection of str values
RECURSIVE SortedStrs(_)
SortedStrs(S) ==
    IF S = {} THEN <<>>
    ELSE LET m == CHOOSE x \in S : \A y \in S \ {x} : StrLess(x, y)
         IN  <<m>> \o SortedStrs(S \ {m})

(***************************************************************************)
(* Small helpers on sequences.                                             *)
(***************************************************************************)
InSeq(x, s) == \E i \in 1..Len(s) : s[i] = x

NoDuplicates(s) == \A i, j \in 1..Len(s) : i # j => s[i] # s[j]

IsPrefix(s, t) == Len(s) <= Len(t) /\ SubSeq(t, 1, Len(s)) = s

SeqsUpTo(S, n) == UNION {[1..k -> S] : k \in 0..n}

(***************************************************************************)
(* CuratorLogger.  logging.py is not among the sources; the return values  *)
(* are the ones EnvironmentManager.handle_result documents: error logs     *)
(* and returns False, info logs and returns True.  exception is used as    *)
(* the failure result of every except clause.                              *)
(***************************************************************************)
LoggerError == FALSE

LoggerInfo == TRUE

LoggerException == FALSE

(***************************************************************************)
(* The manifest document.  A loaded document is modelled as a mapping:     *)
(*   keys   : its top-level keys                                           *)
(*   header : the mapping under image_spec_header (key -> value)           *)
(*   rules  : the list under selected_notebooks, one mapping per entry     *)
(*   out    : the mapping under out (key -> value)                         *)
(* header, rules and out are read only when their key is in keys.          *)
(***************************************************************************)
EmptyMap == [k \in {} |-> <<>>]

\* self.spec = {} / self._spec = {} : nothing loaded yet
EmptyDoc == [keys |-> {}, header |-> EmptyMap, rules |-> <<>>, out |-> EmptyMap]

ALLOWED_TOP == {"image_spec_header", "selected_notebooks", "out"}

ALLOWED_HEADER ==
    {"image_name", "description", "valid_on", "expires_on", "python_version",
     "nb_repo", "root_nb_directory", "deployment_name", "kernel_name"}

ALLOWED_SELECTION ==
    {"nb_repo", "root_nb_directory", "include_subdirs", "exclude_subdirs"}

REQUIRED_TOP == <<"image_spec_header", "selected_notebooks">>

REQUIRED_HEADER ==
    <<"image_name", "python_version", "valid_on", "expires_on", "nb_repo">>

\* The result of one validation function: its boolean, and the error lines it
\* logged (each named by its failure category).
Passed == [ok |-> TRUE, errors |-> <<>>]

Failed(category) == [ok |-> LoggerError, errors |-> <<category>>]

\* _validate_top_level_structure: the first missing required key returns, then
\* the first unknown key returns
ValidateTopLevelStructure(doc) ==
    IF \E i \in 1..Len(REQUIRED_TOP) : REQUIRED_TOP[i] \notin doc.keys
    THEN Failed("missing_top")
    ELSE IF \E key \in doc.keys : key \notin ALLOWED_TOP
    THEN Failed("unknown_top")
    ELSE Passed

\* _validate_header_section: the first unknown key returns, then the first
\* missing required field returns
ValidateHeaderSection(doc) ==
    IF \E key \in DOMAIN doc.header : key \notin ALLOWED_HEADER
    THEN Failed("unknown_header")
    ELSE IF \E i \in 1..Len(REQUIRED_HEADER) :
                REQUIRED_HEADER[i] \notin DOMAIN doc.header
    THEN Failed("missing_header")
    ELSE Passed

ValidateSelectedNotebooksSection_FirstEntryOnly(doc) ==
    IF "selected_notebooks" \notin doc.keys
    THEN Failed("missing_selected_notebooks")
    ELSE IF Len(doc.rules) > 0
            /\ \E key \in DOMAIN doc.rules[1] : key \notin ALLOWED_SELECTION
    THEN Failed("unknown_selection")
    ELSE Passed

\* _validate_selected_notebooks_section: the first unknown key of the first
\* offending entry returns
ValidateSelectedNotebooksSection(doc) ==
    IF "selected_notebooks" \notin doc.keys
    THEN Failed("missing_selected_notebooks")
    ELSE IF \E i \in 1..Len(doc.rules) :
                \E key \in DOMAIN doc.rules[i] : key \notin ALLOWED_SELECTION
    THEN Failed("unknown_selection")
    ELSE Passed

\* _validate_directory_repos
ValidateDirectoryRepos(doc) == Passed

\* a() and b() and ... : the first function that fails ends the chain
AndThen(r, next) == IF r.ok THEN next ELSE r

\* SpecValidator.validate_spec, and the chain of SpecManager.validate
ValidateSpec(doc) ==
    AndThen(ValidateTopLevelStructure(doc),
    AndThen(ValidateHeaderSection(doc),
    AndThen(ValidateSelectedNotebooksSection(doc),
            ValidateDirectoryRepos(doc))))

(***************************************************************************)
(* URLs and paths of the model.                                            *)
(***************************************************************************)
\* SpiInjector.url = "https://github.com/spacetelescope/science-platform-images.git"
SPI_URL ==
    <<"h", "t", "t", "p", "s", ":", "/", "/", "g", "i", "t", "h", "u", "b",
      ".", "c", "o", "m", "/", "s", "p", "a", "c", "e", "t", "e", "l", "e",
      "s", "c", "o", "p", "e", "/", "s", "c", "i", "e", "n", "c", "e", "-",
      "p", "l", "a", "t", "f", "o", "r", "m", "-", "i", "m", "a", "g", "e",
      "s", ".", "g", "i", "t">>

\* "file://"
FILE_SCHEME ==
    <<"f", "i", "l", "e", ":", "/", "/">>

\* ".git"
DOT_GIT ==
    <<".", "g", "i", "t">>

\* a remote notebook repository, "https://h/nb.git"
URL_NB ==
    <<"h", "t", "t", "p", "s", ":", "/", "/", "h", "/", "n", "b", ".", "g",
      "i", "t">>

\* a second remote notebook repository, "https://h/ex.git"
URL_EX ==
    <<"h", "t", "t", "p", "s", ":", "/", "/", "h", "/", "e", "x", ".", "g",
      "i", "t">>

\* a local-scheme repository, "file:///data/nbs"
URL_FILE ==
    <<"f", "i", "l", "e", ":", "/", "/", "/", "d", "a", "t", "a", "/", "n",
      "b", "s">>

\* config.repos_dir, here "/r"
REPOS_DIR ==
    <<"/", "r">>

\* None, for an Optional[Path]: a Path is never the empty string
NONE == <<>>

\* pathlib.Path(s), as its str: "" is ".", repeated and trailing slashes are
\* dropped (a leading "//" is kept, as POSIX allows)
RECURSIVE CollapseSlashes(_)
CollapseSlashes(s) ==
    IF Len(s) < 2 THEN s
    ELSE IF s[1] = "/" /\ s[2] = "/" THEN CollapseSlashes(Tail(s))
    ELSE <<Head(s)>> \o CollapseSlashes(Tail(s))

RECURSIVE StripTrailingSlashes(_)
StripTrailingSlashes(s) ==
    IF Len(s) > 1 /\ s[Len(s)] = "/"
    THEN StripTrailingSlashes(SubSeq(s, 1, Len(s) - 1))
    ELSE s

PathOf(s) ==
    IF s = <<>> THEN <<".">>
    ELSE IF Len(s) >= 2 /\ s[1] = "/" /\ s[2] = "/" /\ (Len(s) = 2 \/ s[3] # "/")
    THEN <<"/">> \o StripTrailingSlashes(CollapseSlashes(Tail(s)))
    ELSE StripTrailingSlashes(CollapseSlashes(s))

\* base / name for pathlib paths: an absolute name replaces base, an empty
\* name leaves it
PathJoin(base, name) ==
    IF name = <<>> THEN base
    ELSE IF Head(name) = "/" THEN PathOf(name)
    ELSE IF base = <<"/">> THEN PathOf(base \o name)
    ELSE PathOf(base \o <<"/">> \o name)

\* path.exists() in a file system fs (a mapping: existing directory -> the
\* state of its contents); the current directory always exists
Exists(path, fs) == path = <<".">> \/ path \in DOMAIN fs

\* whether path is dir or lies under it
IsUnder(path, dir) ==
    path = dir \/ StartsWith(path, IF dir = <<"/">> THEN dir ELSE dir \o <<"/">>)

\* the file system after a successful shutil.rmtree(dir)
RmTree(fs, dir) == [p \in {q \in DOMAIN fs : ~IsUnder(q, dir)} |-> fs[p]]

\* the file system with directory path created or overwritten
WithDir(fs, path, contents) ==
    [p \in DOMAIN fs \cup {path} |-> IF p = path THEN contents ELSE fs[p]]

(***************************************************************************)
(* RepositoryManager (repository.py).  The outcome of one git command is   *)
(* an input of the model:                                                  *)
(*   "ok"      exit status 0, the working copy as it was (pull) or new     *)
(*   "changed" exit status 0, and a pull brought new commits               *)
(*   "failed"  non-zero exit status (subprocess.CalledProcessError)        *)
(*   "oserror" the command could not be run, or timed out                  *)
(***************************************************************************)
GitOutcomes == {"ok", "changed", "failed", "oserror"}

\* _update_repo, then the except clause of _clone_or_update_repo: a failed pull
\* is a warning and the directory is returned
UpdateRepo(repo_dir, fs, outcome) ==
    [path |-> IF outcome = "oserror" THEN NONE ELSE repo_dir,
     fs   |-> IF outcome = "changed" THEN WithDir(fs, repo_dir, "pulled") ELSE fs,
     vcs  |-> <<[cmd |-> "pull", dir |-> repo_dir]>>]

\* _clone_repo, then the except clause of _clone_or_update_repo
CloneRepo(repo_url, repo_dir, fs, outcome) ==
    [path |-> IF outcome \in {"ok", "changed"} THEN repo_dir ELSE NONE,
     fs   |-> IF outcome \in {"ok", "changed"}
              THEN WithDir(WithDir(fs, REPOS_DIR,
                                   IF Exists(REPOS_DIR, fs) THEN fs[REPOS_DIR]
                                   ELSE "created"),
                           repo_dir, "cloned")
              ELSE fs,
     vcs  |-> <<[cmd |-> "clone", dir |-> repo_dir]>>]

\* _clone_or_update_repo
CloneOrUpdateRepo(repo_url, repo_dir, fs, outcome) ==
    IF Exists(repo_dir, fs)
    THEN UpdateRepo(repo_dir, fs, outcome)
    ELSE CloneRepo(repo_url, repo_dir, fs, outcome)

\* repo_url.split("/")[-1].replace(".git", "")
RepoName(repo_url) == StrRemove(LastSegment(repo_url), DOT_GIT)

\* _setup_remote_repo
SetupRemoteRepo(repo_url, clone, fs, outcome) ==
    LET repo_dir == PathJoin(REPOS_DIR, RepoName(repo_url))
    IN  IF ~clone
        THEN [path |-> IF Exists(repo_dir, fs) THEN repo_dir ELSE NONE,
              fs   |-> fs,
              vcs  |-> <<>>]
        ELSE CloneOrUpdateRepo(repo_url, repo_dir, fs, outcome)

\* _setup_local_repo: the first seven characters are cut off whatever they are
\* (os.path.expanduser changes only a leading "~", which no string here has)
SetupLocalRepo(repo_url, fs) ==
    LET local_path == PathOf(SliceFrom(repo_url, 7))
    IN  [path |-> IF Exists(local_path, fs) THEN local_path ELSE NONE,
         fs   |-> fs,
         vcs  |-> <<>>]

\* the body of the loop of setup_repositories up to the test of repo_path; key
\* is the value of the loop variable repo_url when repos_to_setup is assigned
ResolveOne(repo_url, clone, fs, outcome) ==
    IF ~clone
    THEN LET stripped == IF StartsWith(repo_url, FILE_SCHEME)
                         THEN StrRemove(repo_url, FILE_SCHEME)
                         ELSE repo_url
         IN  [key |-> stripped] @@ SetupLocalRepo(stripped, fs)
    ELSE [key |-> repo_url] @@ SetupRemoteRepo(repo_url, clone, fs, outcome)

ResolutionFailed_Never(repo_path) == FALSE

\* "if not repo_path: return False" (a Path is always true, None is not)
ResolutionFailed(repo_path) == repo_path = NONE

\* d[key] = value
MapSet(d, key, value) ==
    [k \in DOMAIN d \cup {key} |-> IF k = key THEN value ELSE d[k]]

\* The loop of setup_repositories from its i-th URL on.  r is the state so far:
\*   fs, repos_to_setup : the file system and self.repos_to_setup
\*   vcsLog             : the git commands run, in order
\*   resolveLog         : the URLs whose resolution was attempted, in order,
\*                        each with the path it resolved to
RECURSIVE SetupLoop(_, _, _, _, _)
SetupLoop(repo_urls, i, clone, oracle, r) ==
    IF i > Len(repo_urls) THEN [r EXCEPT !.ok = TRUE]
    ELSE LET one == ResolveOne(repo_urls[i], clone, r.fs, oracle[i])
             r1  == [r EXCEPT !.fs = one.fs,
                              !.vcsLog = @ \o one.vcs,
                              !.resolveLog =
                                  Append(@, [url |-> repo_urls[i], path |-> one.path])]
         IN  IF ResolutionFailed(one.path)
             THEN [r1 EXCEPT !.ok = FALSE]
             ELSE SetupLoop(repo_urls, i + 1, clone, oracle,
                            [r1 EXCEPT !.repos_to_setup =
                                           MapSet(@, one.key, one.path)])

\* setup_repositories(repo_urls); oracle[i] is the outcome of the git command,
\* if any, that resolving the i-th URL runs
SetupRepositories(repo_urls, clone, oracle, fs) ==
    SetupLoop(repo_urls, 1, clone, oracle,
              [ok |-> FALSE, fs |-> fs, vcsLog |-> <<>>, resolveLog |-> <<>>,
               repos_to_setup |->
                   [u \in {repo_urls[j] : j \in 1..Len(repo_urls)} |-> NONE]])

\* cleanup_repos with the outcome of shutil.rmtree: True after a removal, the
\* result of logger.exception when rmtree raises, and None (the function ends
\* without a return statement) when the directory does not exist
CleanupRepos(fs, rmtreeRaises) ==
    IF Exists(REPOS_DIR, fs)
    THEN IF rmtreeRaises
         THEN [value |-> IF LoggerException THEN "True" ELSE "False", fs |-> fs]
         ELSE [value |-> "True", fs |-> RmTree(fs, REPOS_DIR)]
    ELSE [value |-> "None", fs |-> fs]

(***************************************************************************)
(* Repository URLs of a manifest.                                          *)
(***************************************************************************)
\* entry.get("nb_repo", default)
EntryRepo(entry, default) ==
    IF "nb_repo" \in DOMAIN entry THEN entry["nb_repo"] ELSE default

\* The loop shared by SpecManager.get_repository_urls and
\* NotebookCurator._setup_repositories: the override of each entry, from the
\* i-th on, is appended unless the list has it already
RECURSIVE CollectRepoUrls(_, _, _)
CollectRepoUrls(doc, i, urls) ==
    IF i > Len(doc.rules) THEN urls
    ELSE LET nb_repo == EntryRepo(doc.rules[i], urls[1])
         IN  CollectRepoUrls(doc, i + 1,
                             IF InSeq(nb_repo, urls) THEN urls
                             ELSE Append(urls, nb_repo))

SeqRange(s) == {s[i] : i \in 1..Len(s)}

\* SpecManager.get_repository_urls, for a validated manifest
GetRepositoryUrls(doc) ==
    SortedStrs(SeqRange(CollectRepoUrls(doc, 1, <<doc.header["nb_repo"]>>)))

\* the list NotebookCurator._setup_repositories hands to setup_repositories
CuratorRepoUrls(doc) ==
    Append(CollectRepoUrls(doc, 1, <<doc.header["nb_repo"]>>), SPI_URL)

(***************************************************************************)
(* The outputs store (the mapping under "out").  A value is                *)
(*   [kind |-> "str" | "list" | "dict", items |-> <<item, ...>>]           *)
(* and an item is [kind |-> "str" | "path", text |-> ...], so that str()   *)
(* of an item is a conversion and not the identity.                        *)
(***************************************************************************)
StrItem(text) == [kind |-> "str", text |-> text]

PathItem(text) == [kind |-> "path", text |-> text]

\* str(item)
Str(item) == StrItem(item.text)

\* [str(item) for item in value]
StrList(value) ==
    [kind |-> "list", items |-> [i \in DOMAIN value.items |-> Str(value.items[i])]]

SetOutputData_Replace(doc, key, value) ==
    [doc EXCEPT !.keys = @ \cup {"out"}, !.out = MapSet(EmptyMap, key, value)]

\* SpecManager.set_output_data, and the same two statements where curator.py
\* writes self.spec["out"][key]
SetOutputData(doc, key, value) ==
    [doc EXCEPT !.keys = @ \cup {"out"},
                !.out = MapSet(IF "out" \in doc.keys THEN doc.out ELSE EmptyMap,
                               key, value)]

\* SpecManager.get_output_data
GetOutputData(doc, key, default) ==
    IF "out" \in doc.keys /\ key \in DOMAIN doc.out THEN doc.out[key] ELSE default

\* the loop of revise_and_save over its keyword arguments (a sequence of
\* <<key, value>> in call order)
RECURSIVE ReviseOutputs(_, _, _)
ReviseOutputs(doc, additional_outputs, i) ==
    IF i > Len(additional_outputs) THEN doc
    ELSE LET key   == additional_outputs[i][1]
             value == additional_outputs[i][2]
         IN  ReviseOutputs(SetOutputData(doc, key,
                                         IF value.kind = "list" THEN StrList(value)
                                         ELSE value),
                           additional_outputs, i + 1)

(***************************************************************************)
(* Notebook selection: NotebookProcessor.collect_notebook_paths, which the *)
(* workflow calls, and SpecManager.collect_notebook_paths.  Files are      *)
(* entries of fs whose contents are "file".  The order in which glob       *)
(* yields its matches is the file system's: it is an input (order, a       *)
(* sequence of every "*.ipynb" entry).                                     *)
(***************************************************************************)
IPYNB == <<".", "i", "p", "y", "n", "b">>

DOT == <<".">>

EndsWith(s, suffix) ==
    Len(s) >= Len(suffix) /\ SubSeq(s, Len(s) - Len(suffix) + 1, Len(s)) = suffix

\* sub in s, for str
Contains(s, sub) ==
    \E i \in 0..(Len(s) - Len(sub)) : SubSeq(s, i + 1, i + Len(sub)) = sub

\* re.search(pattern, s) for a pattern of literal characters and ".", which
\* matches any one character
ReSearch(pattern, s) ==
    \E i \in 0..(Len(s) - Len(pattern)) :
        \A j \in 1..Len(pattern) : pattern[j] = "." \/ pattern[j] = s[i + j]

\* re.search(r"(.ipynb_|-)checkpoints", s)
CheckpointSearch(s) ==
    \/ ReSearch(<<".", "i", "p", "y", "n", "b", "_", "c", "h", "e", "c", "k",
                  "p", "o", "i", "n", "t", "s">>, s)
    \/ ReSearch(<<"-", "c", "h", "e", "c", "k", "p", "o", "i", "n", "t", "s">>, s)

\* the elements of a sequence that are in a set, in the sequence's order
RECURSIVE Restrict(_, _)
Restrict(seq, S) ==
    IF seq = <<>> THEN <<>>
    ELSE (IF Head(seq) \in S THEN <<Head(seq)>> ELSE <<>>) \o Restrict(Tail(seq), S)

\* every sequence that lists each element of S once
Perms(S) ==
    {q \in [1..Cardinality(S) -> S] : \A i, j \in 1..Cardinality(S) : i # j => q[i] # q[j]}

\* list(dir.glob("**/*.ipynb")): nothing if dir is no directory
Glob(dir, fs, order) ==
    IF ~Exists(dir, fs) THEN <<>>
    ELSE Restrict(order, {p \in DOMAIN fs : /\ p # dir
                                            /\ IsUnder(p, dir)
                                            /\ EndsWith(LastSegment(p), IPYNB)})

\* base_path / subdir: pathlib drops a "." component
SubPath(base_path, subdir) ==
    IF subdir = DOT THEN base_path ELSE PathJoin(base_path, subdir)

\* entry.get(key, default)
EntryGet(entry, key, default) ==
    IF key \in DOMAIN entry THEN entry[key] ELSE default

\* NotebookProcessor._process_directory_entry, from the i-th include on
RECURSIVE ProcessorIncludes(_, _, _, _, _, _)
ProcessorIncludes(include_subdirs, i, exclude_subdirs, base_path, fs, order) ==
    IF i > Len(include_subdirs) THEN <<>>
    ELSE LET subdir_path == SubPath(base_path, include_subdirs[i])
             found == Glob(subdir_path, fs, order)
             kept  == {p \in SeqRange(found) :
                          ~\E e \in 1..Len(exclude_subdirs) :
                              Contains(p, exclude_subdirs[e])}
         IN  Restrict(found, kept)
             \o ProcessorIncludes(include_subdirs, i + 1, exclude_subdirs,
                                  base_path, fs, order)

\* NotebookProcessor._process_directory_entry
ProcessorDirectoryEntry(entry, repo_dir, root_nb_directory, fs, order) ==
    ProcessorIncludes(EntryGet(entry, "include_subdirs", <<DOT>>), 1,
                      EntryGet(entry, "exclude_subdirs", <<>>),
                      IF root_nb_directory # <<>>
                      THEN PathJoin(repo_dir, root_nb_directory) ELSE repo_dir,
                      fs, order)

\* what the i-th rule adds in NotebookProcessor.collect_notebook_paths
ProcessorRule(doc, i, repos, fs, order) ==
    LET entry    == doc.rules[i]
        repo_dir == repos[EntryRepo(entry, doc.header["nb_repo"])]
    IN  IF repo_dir = NONE THEN <<>>
        ELSE ProcessorDirectoryEntry(
                 entry, repo_dir,
                 EntryGet(entry, "root_nb_directory",
                          EntryGet(doc.header, "root_nb_directory", <<>>)),
                 fs, order)

\* NotebookProcessor.collect_notebook_paths, from the i-th rule on
RECURSIVE ProcessorCollect(_, _, _, _, _)
ProcessorCollect(doc, i, repos, fs, order) ==
    IF i > Len(doc.rules) THEN <<>>
    ELSE ProcessorRule(doc, i, repos, fs, order)
         \o ProcessorCollect(doc, i + 1, repos, fs, order)

\* SpecManager._only_included_non_files
OnlyIncludedNonFiles(possible_notebooks, include_regexes, fs) ==
    Restrict(possible_notebooks,
             {p \in SeqRange(possible_notebooks) :
                 /\ fs[p] = "file"
                 /\ \E k \in 1..Len(include_regexes) : ReSearch(include_regexes[k], p)})

\* SpecManager._exclude_notebooks
ExcludeNotebooks(included_notebooks, exclude_subdirs) ==
    Restrict(included_notebooks,
             {p \in SeqRange(included_notebooks) :
                 /\ ~CheckpointSearch(p)
                 /\ ~\E e \in 1..Len(exclude_subdirs) : ReSearch(exclude_subdirs[e], p)})

\* SpecManager._process_directory_entry
ManagerDirectoryEntry(entry, repo_dir, root_nb_directory, fs, order) ==
    LET base_path == IF root_nb_directory # <<>>
                     THEN PathJoin(repo_dir, root_nb_directory) ELSE repo_dir
    IN  ExcludeNotebooks(
            OnlyIncludedNonFiles(Glob(base_path, fs, order),
                                 EntryGet(entry, "include_subdirs", <<DOT>>), fs),
            EntryGet(entry, "exclude_subdirs", <<>>))

\* what the i-th rule adds in SpecManager.collect_notebook_paths: _get_repo_dir
\* names the clone directory, which as a Path is never false
ManagerRule(doc, i, repos_dir, fs, order) ==
    LET entry      == doc.rules[i]
        clone_dir  == PathJoin(repos_dir,
                               RepoName(EntryRepo(entry, doc.header["nb_repo"])))
        entry_root == EntryGet(entry, "root_nb_directory", <<>>)
    IN  ManagerDirectoryEntry(
            entry, clone_dir,
            IF entry_root # <<>> THEN entry_root
            ELSE EntryGet(doc.header, "root_nb_directory", <<>>),
            fs, order)

\* SpecManager.collect_notebook_paths, from the i-th rule on
RECURSIVE ManagerCollect(_, _, _, _, _)
ManagerCollect(doc, i, repos_dir, fs, order) ==
    IF i > Len(doc.rules) THEN <<>>
    ELSE ManagerRule(doc, i, repos_dir, fs, order)
         \o ManagerCollect(doc, i + 1, repos_dir, fs, order)

(***************************************************************************)
(* Import extraction (NotebookProcessor.extract_imports).  A notebook on   *)
(* disk is [json |-> "ok" | "bad", lines |-> <<line, ...>>], the lines of  *)
(* its code cells; a line is [stmt |-> "import" | "from" | "other",        *)
(* module |-> <<component, ...>>], the dotted module path it names.  The   *)
(* result, a dict, is the sequence of its [key, value] items in insertion  *)
(* order.                                                                  *)
(***************************************************************************)
BUILTIN_MODULES == {<<"_", "_", "f", "u", "t", "u", "r", "e", "_", "_">>,
                    <<"b", "u", "i", "l", "t", "i", "n", "s">>,
                    <<"s", "y", "s">>, <<"o", "s">>}

\* import_pattern.match(line) and _extract_root_package: the root packages a
\* line yields (none, or one)
ExtractRootPackage(line) ==
    IF line.stmt \notin {"import", "from"} \/ line.module = <<>> THEN {}
    ELSE IF line.module[1] \in BUILTIN_MODULES THEN {}
    ELSE {line.module[1]}

\* _extract_imports_from_notebook
ExtractImportsFromNotebook(notebook) ==
    UNION {ExtractRootPackage(notebook.lines[i]) : i \in 1..Len(notebook.lines)}

\* the position of key among the items of a dict, 0 if it is not a key
KeyIndex(d, key) ==
    IF \E i \in 1..Len(d) : d[i].key = key
    THEN CHOOSE i \in 1..Len(d) : d[i].key = key
    ELSE 0

\* "if imp not in import_to_nb: import_to_nb[imp] = []" and the append, for
\* the imports of one notebook from the i-th on
RECURSIVE AddImports(_, _, _, _)
AddImports(imports, i, nb_path_str, import_to_nb) ==
    IF i > Len(imports) THEN import_to_nb
    ELSE LET k == KeyIndex(import_to_nb, imports[i])
         IN  AddImports(imports, i + 1, nb_path_str,
                        IF k = 0
                        THEN Append(import_to_nb,
                                    [key |-> imports[i], value |-> <<nb_path_str>>])
                        ELSE [import_to_nb EXCEPT ![k].value = Append(@, nb_path_str)])

IterationOrders_List(notebook_paths) == {notebook_paths}

\* the orders in which "for nb_path_str in unique_notebooks" can meet the
\* elements of set(notebook_paths)
IterationOrders(notebook_paths) == Perms(SeqRange(notebook_paths))

ReadNotebookJson_NoExcept(notebook) ==
    IF notebook.json = "ok" THEN [raised |-> "", parsed |-> TRUE]
    ELSE [raised |-> "JSONDecodeError", parsed |-> FALSE]

\* _read_notebook_json of a file that is there: json.JSONDecodeError is
\* caught and None returned, which "if nb_dict" skips
ReadNotebookJson(notebook) == [raised |-> "", parsed |-> notebook.json = "ok"]

\* the loop of extract_imports over the notebooks in the given order, from
\* the i-th on; importOrder is the order in which the elements of a set of
\* imports are met.  open() raises for a file that is not there; a file
\* that is not JSON is skipped.
RECURSIVE ExtractLoop(_, _, _, _, _)
ExtractLoop(order, i, files, importOrder, import_to_nb) ==
    IF i > Len(order) THEN [raised |-> "", value |-> import_to_nb]
    ELSE IF order[i] \notin DOMAIN files
    THEN [raised |-> "FileNotFoundError", value |-> import_to_nb]
    ELSE IF ReadNotebookJson(files[order[i]]).raised # ""
    THEN [raised |-> ReadNotebookJson(files[order[i]]).raised, value |-> import_to_nb]
    ELSE IF ~ReadNotebookJson(files[order[i]]).parsed
    THEN ExtractLoop(order, i + 1, files, importOrder, import_to_nb)
    ELSE ExtractLoop(order, i + 1, files, importOrder,
                     AddImports(Restrict(importOrder,
                                         ExtractImportsFromNotebook(files[order[i]])),
                                1, order[i], import_to_nb))

\* list(test_imports.keys())
Keys(d) == [i \in DOMAIN d |-> d[i].key]

(***************************************************************************)
(* The notebook test.  NotebookTester is not among the sources; it is      *)
(* modelled from the specification's sections 4.7 and 5: filter keeps the  *)
(* paths that match one of the regular expressions of a comma-separated    *)
(* pattern (here the sequence of its parts; none: all paths), run executes *)
(* every path, at most jobs at a time, each ending passed, failed or       *)
(* timed_out on its own, and returns the conjunction of the outcomes.      *)
(***************************************************************************)
FilterNotebooks(paths, patterns) ==
    Restrict(paths, {p \in SeqRange(paths) :
                        \/ patterns = <<>>
                        \/ \E k \in 1..Len(patterns) : ReSearch(patterns[k], p)})

FinishedStatuses == {"passed", "failed", "timed_out"}

TesterResult(status) == \A i \in 1..Len(status) : status[i] = "passed"

\* the number of notebooks being executed
Running(status) == Cardinality({i \in 1..Len(status) : status[i] = "running"})

\* _test_notebooks: the notebooks handed to the tester; test is the value of
\* config.test, a pattern (its parts) if it is a str
FilteredNotebooks(paths, test) ==
    IF test.isStr THEN FilterNotebooks(paths, test.patterns) ELSE paths

TestNotebooksReturn_AlwaysTrue(testerResult) == TRUE

\* _test_notebooks: "return self.tester.test_notebooks(filtered_notebooks)"
TestNotebooksReturn(testerResult) == testerResult

(***************************************************************************)
(* SpiInjector (injector.py).  A file of the file system maps to its       *)
(* content, the sequence of the pieces of text written to it; "\n" is a    *)
(* piece of its own.                                                       *)
(***************************************************************************)
\* "science-platform-images"
SPI_REPO_NAME ==
    <<"s", "c", "i", "e", "n", "c", "e", "-", "p", "l", "a", "t", "f", "o",
      "r", "m", "-", "i", "m", "a", "g", "e", "s">>

\* "deployments"
DEPLOYMENTS ==
    <<"d", "e", "p", "l", "o", "y", "m", "e", "n", "t", "s">>

\* "environments"
ENVIRONMENTS ==
    <<"e", "n", "v", "i", "r", "o", "n", "m", "e", "n", "t", "s">>

\* "tests"
TESTS ==
    <<"t", "e", "s", "t", "s">>

\* "notebook-repos"
NOTEBOOK_REPOS ==
    <<"n", "o", "t", "e", "b", "o", "o", "k", "-", "r", "e", "p", "o", "s">>

\* "imports"
IMPORTS ==
    <<"i", "m", "p", "o", "r", "t", "s">>

\* "notebooks"
NOTEBOOKS ==
    <<"n", "o", "t", "e", "b", "o", "o", "k", "s">>

\* ".pip"
DOT_PIP ==
    <<".", "p", "i", "p">>

\* ".yml"
DOT_YML ==
    <<".", "y", "m", "l">>

\* the paths _init_patterns derives from the header
EnvironmentsPath(doc) ==
    PathJoin(PathJoin(PathJoin(PathJoin(REPOS_DIR, SPI_REPO_NAME), DEPLOYMENTS),
                      doc.header["deployment_name"]), ENVIRONMENTS)

KernelPath(doc) == PathJoin(EnvironmentsPath(doc), doc.header["kernel_name"])

TestPath(doc) == PathJoin(KernelPath(doc), TESTS)

EnvPip(doc) == PathJoin(KernelPath(doc), doc.header["kernel_name"] \o DOT_PIP)

EnvYml(doc) == PathJoin(KernelPath(doc), doc.header["kernel_name"] \o DOT_YML)

\* the calls of _inject in inject, in order: <<field, where>>
InjectTargets(doc) ==
    <<<<"notebook_repo_urls", PathJoin(EnvironmentsPath(doc), NOTEBOOK_REPOS)>>,
      <<"mamba_spec", EnvYml(doc)>>,
      <<"package_versions", EnvPip(doc)>>,
      <<"test_imports", PathJoin(TestPath(doc), IMPORTS)>>,
      <<"test_notebooks", PathJoin(TestPath(doc), NOTEBOOKS)>>>>

\* os.path.dirname(path)
Dirname(path) == PathOf(SubSeq(path, 1, Len(path) - Len(LastSegment(path)) - 1))

\* None
NoneValue == [kind |-> "none", items |-> <<>>]

\* get_yaml().dump(obj, f): one line for each entry of the mapping
RECURSIVE YamlDump(_)
YamlDump(items) ==
    IF items = <<>> THEN <<>>
    ELSE <<Head(items).text, "\n">> \o YamlDump(Tail(items))

\* "\n".join(obj) for a list of str
RECURSIVE JoinLines(_)
JoinLines(items) ==
    IF items = <<>> THEN <<>>
    ELSE IF Len(items) = 1 THEN <<items[1].text>>
    ELSE <<Head(items).text, "\n">> \o JoinLines(Tail(items))

\* what _inject writes for a value: mapping, sequence, scalar
Serialize(obj) ==
    CASE obj.kind = "dict" -> YamlDump(obj.items)
      [] obj.kind = "list" -> JoinLines(obj.items)
      [] obj.kind = "str" -> <<obj.items[1].text>>

\* the exception _inject raises for a value, "" for none: join takes str
\* items only, and a value of another type is refused
InjectRaises(obj) ==
    CASE obj.kind = "dict" -> ""
      [] obj.kind = "list" ->
            IF \A i \in 1..Len(obj.items) : obj.items[i].kind = "str" THEN ""
            ELSE "TypeError"
      [] obj.kind = "str" -> ""
      [] OTHER -> "ValueError"

OpenForWriting_Append(content) == content

\* open(where, "w"): the content of the file once it is open
OpenForWriting(content) == <<>>

\* _inject: the file is opened, and so emptied, before the value is read
InjectField(field, where, doc, fs) ==
    IF ~Exists(Dirname(where), fs)
    THEN [fs |-> fs, raised |-> "FileNotFoundError"]
    ELSE LET obj     == GetOutputData(doc, field, NoneValue)
             opened  == OpenForWriting(IF where \in DOMAIN fs THEN fs[where] ELSE <<>>)
             written == IF InjectRaises(obj) = "" THEN opened \o Serialize(obj)
                        ELSE opened
         IN  [fs |-> WithDir(fs, where, written), raised |-> InjectRaises(obj)]

\* the calls of _inject from the i-th on: the first exception ends them
RECURSIVE InjectLoop(_, _, _, _)
InjectLoop(targets, i, doc, fs) ==
    IF i > Len(targets) THEN [fs |-> fs, raised |-> ""]
    ELSE LET r == InjectField(targets[i][1], targets[i][2], doc, fs)
         IN  IF r.raised # "" THEN r ELSE InjectLoop(targets, i + 1, doc, r.fs)

\* SpiInjector.inject; the header is read through properties that need a
\* validated manifest
InjectAll(doc, validated, fs) ==
    IF ~validated THEN [fs |-> fs, raised |-> "RuntimeError"]
    ELSE InjectLoop(InjectTargets(doc), 1, doc, fs)

(***************************************************************************)
(* The requirement files of a compile (compiler.py find_requirements_files *)
(* and the finders of injector.py).                                        *)
(***************************************************************************)
\* "common/common-env"
COMMON_ENV ==
    <<"c", "o", "m", "m", "o", "n", "/", "c", "o", "m", "m", "o", "n", "-",
      "e", "n", "v">>

\* ".conda"
DOT_CONDA ==
    <<".", "c", "o", "n", "d", "a">>

\* "requirements.txt"
REQUIREMENTS_TXT ==
    <<"r", "e", "q", "u", "i", "r", "e", "m", "e", "n", "t", "s", ".", "t",
      "x", "t">>

\* _init_patterns for an injector made with the given repos_dir
SpiPaths(repos_dir, doc) ==
    LET deployments_path ==
            PathJoin(PathJoin(repos_dir, SPI_REPO_NAME), DEPLOYMENTS)
        environments_path ==
            PathJoin(PathJoin(deployments_path, doc.header["deployment_name"]),
                     ENVIRONMENTS)
        kernel_path == PathJoin(environments_path, doc.header["kernel_name"])
        test_path   == PathJoin(kernel_path, TESTS)
        common_path == PathJoin(deployments_path, COMMON_ENV)
    IN  [kernel_path    |-> kernel_path,
         common_path    |-> common_path,
         env_pip        |-> PathJoin(kernel_path, doc.header["kernel_name"] \o DOT_PIP),
         env_yml        |-> PathJoin(kernel_path, doc.header["kernel_name"] \o DOT_YML),
         pip_patterns   |-> <<[dir |-> common_path, suffix |-> DOT_PIP],
                              [dir |-> kernel_path, suffix |-> DOT_PIP]>>,
         mamba_patterns |-> <<[dir |-> common_path, suffix |-> DOT_CONDA],
                              [dir |-> kernel_path, suffix |-> DOT_CONDA]>>,
         targets        |->
             <<<<"notebook_repo_urls", PathJoin(environments_path, NOTEBOOK_REPOS)>>,
               <<"mamba_spec",
                 PathJoin(kernel_path, doc.header["kernel_name"] \o DOT_YML)>>,
               <<"package_versions",
                 PathJoin(kernel_path, doc.header["kernel_name"] \o DOT_PIP)>>,
               <<"test_imports", PathJoin(test_path, IMPORTS)>>,
               <<"test_notebooks", PathJoin(test_path, NOTEBOOKS)>>>>]

Unlink_Kept(fs, path) == fs

\* path.unlink(missing_ok=True)
Unlink(fs, path) == [p \in DOMAIN fs \ {path} |-> fs[p]]

\* Path(".").glob(str(pattern)) for the patterns dir/*suffix, in turn; order
\* is the order in which a directory lists its entries.  pathlib refuses a
\* pattern that is an absolute path.
RECURSIVE GetSpiRequirements(_, _, _)
GetSpiRequirements(patterns, fs, order) ==
    IF patterns = <<>> THEN [raised |-> "", files |-> <<>>]
    ELSE IF Head(patterns).dir[1] = "/"
    THEN [raised |-> "NotImplementedError", files |-> <<>>]
    ELSE LET extras ==
                 Restrict(order, {p \in DOMAIN fs :
                                     /\ Dirname(p) = Head(patterns).dir
                                     /\ Len(LastSegment(p)) >= Len(Head(patterns).suffix)
                                     /\ EndsWith(LastSegment(p), Head(patterns).suffix)})
             rest == GetSpiRequirements(Tail(patterns), fs, order)
         IN  [raised |-> rest.raised, files |-> extras \o rest.files]

\* find_spi_pip_requirements_files: the injected <kernel>.pip is removed first
FindSpiPipRequirementsFiles(repos_dir, doc, fs, order) ==
    LET unlinked == Unlink(fs, SpiPaths(repos_dir, doc).env_pip)
    IN  [fs |-> unlinked] @@
        GetSpiRequirements(SpiPaths(repos_dir, doc).pip_patterns, unlinked, order)

\* find_spi_mamba_requirements_files: the injected <kernel>.yml is removed first
FindSpiMambaRequirementsFiles(repos_dir, doc, fs, order) ==
    LET unlinked == Unlink(fs, SpiPaths(repos_dir, doc).env_yml)
    IN  [fs |-> unlinked] @@
        GetSpiRequirements(SpiPaths(repos_dir, doc).mamba_patterns, unlinked, order)

\* compiler.find_requirements_files: the requirements.txt of the directories
\* of the notebooks, met in the given order
FindRequirementsFiles(paths, fs, order) ==
    Restrict(order, {req_file \in {PathJoin(Dirname(paths[i]), REQUIREMENTS_TXT) :
                                       i \in 1..Len(paths)} : Exists(req_file, fs)})

\* [PathItem(p) for p in paths]: a list of Path objects
PathList(paths) == [kind |-> "list", items |-> [i \in DOMAIN paths |-> PathItem(paths[i])]]

(***************************************************************************)
(* State.                                                                  *)
(*   spec            SpecValidator.spec, which NotebookCurator.spec        *)
(*                   aliases once validation has passed                    *)
(*   managerSpec, isValidated   SpecManager._spec, ._is_validated          *)
(*   savedFile       the manifest file that is written: its state          *)
(*                   ("absent", "written", or "torn" by a write that       *)
(*                   raised) and the document in it                        *)
(*   clone, repos_to_setup      RepositoryManager.clone, .repos_to_setup   *)
(*   fs              the directories that exist, each with the state of    *)
(*                   its contents                                          *)
(*   config          the CuratorConfig flags the workflow reads            *)
(*   pc, result      the position in the workflow, and what main returns   *)
(*   notebook_paths, test_imports   locals of _execute_workflow            *)
(*   ret             the last call: its name, its arguments, the value it  *)
(*                   returned or the exception it raised, and the error    *)
(*                   lines it logged                                       *)
(* History, kept for the properties:                                       *)
(*   loaded          the document as it was loaded                         *)
(*   started         the stages started, in order                          *)
(*   failedAt        the stage that reported failure                       *)
(*   used            the inputs the install, import-test and notebook-test *)
(*                   stages were given                                     *)
(*   lastStored      every key the outputs store has held, with the value  *)
(*                   last stored under it                                  *)
(*   fs0, urlsArg    the file system before, and the argument of, the      *)
(*                   last setup_repositories                               *)
(*   vcsLog, resolveLog         see SetupLoop                              *)
(*   testRun         the notebook test under way: the job count, the paths *)
(*                   it was given and the status of each                   *)
(*   process         the command-line process: whether the log-counter     *)
(*                   summary was printed, and the exit status              *)
(***************************************************************************)
VARIABLES spec, managerSpec, isValidated, savedFile, clone, repos_to_setup, fs,
          config, pc, result, notebook_paths, test_imports, ret,
          loaded, started, failedAt, used, lastStored, fs0, urlsArg,
          vcsLog, resolveLog, testRun, process

vars == <<spec, managerSpec, isValidated, savedFile, clone, repos_to_setup, fs,
          config, pc, result, notebook_paths, test_imports, ret,
          loaded, started, failedAt, used, lastStored, fs0, urlsArg,
          vcsLog, resolveLog, testRun, process>>

validatorVars == <<spec, loaded>>

managerVars == <<managerSpec, isValidated>>

repoVars == <<clone, repos_to_setup, fs, fs0, urlsArg, vcsLog, resolveLog>>

workflowVars ==
    <<config, result, notebook_paths, test_imports, started, failedAt, used, testRun,
      process>>

Ret(op, args, value) ==
    [op |-> op, args |-> args, value |-> value, raised |-> "", errors |-> <<>>]

Raised(op, args, exception) ==
    [op |-> op, args |-> args, value |-> FALSE, raised |-> exception, errors |-> <<>>]

NoRet == Ret("none", <<>>, FALSE)

Unused == [kind |-> "unused", items |-> <<>>]

\* no notebook test under way
NoTestRun == [jobs |-> 0, filter |-> <<>>, paths |-> <<>>, status |-> <<>>]

\* the command-line process before its run has ended
NotExited == [printed |-> FALSE, exit |-> <<>>]

NoConfig ==
    [init_env |-> FALSE, clone |-> FALSE, compile |-> FALSE, install |-> FALSE,
     test |-> FALSE, inject_spi |-> FALSE, cleanup |-> FALSE]

\* the parts of the state an object that is not under study starts with
ValidatorIdle == spec = EmptyDoc /\ loaded = EmptyDoc

ManagerIdle == managerSpec = EmptyDoc /\ isValidated = FALSE

NotSaved == [state |-> "absent", doc |-> EmptyDoc]

StoreIdle == savedFile = NotSaved /\ lastStored = EmptyMap

RepoIdle ==
    /\ clone = FALSE
    /\ repos_to_setup = EmptyMap
    /\ fs = EmptyMap
    /\ fs0 = EmptyMap
    /\ urlsArg = <<>>
    /\ vcsLog = <<>>
    /\ resolveLog = <<>>

WorkflowIdle ==
    /\ config = NoConfig
    /\ result = "running"
    /\ notebook_paths = <<>>
    /\ test_imports = <<>>
    /\ started = <<>>
    /\ failedAt = "none"
    /\ used = [install |-> Unused, test_imports |-> Unused, test_notebooks |-> Unused]
    /\ testRun = NoTestRun
    /\ process = NotExited

(***************************************************************************)
(* Manifests the model loads.                                              *)
(***************************************************************************)
\* a header with the given keys; only nb_repo is read as a value
HeaderWith(keys, nb_repo) ==
    [k \in keys |-> IF k = "nb_repo" THEN nb_repo ELSE <<"v">>]

RequiredHeaderKeys == SeqRange(REQUIRED_HEADER)

FullHeader(nb_repo) ==
    HeaderWith(RequiredHeaderKeys \cup {"deployment_name", "kernel_name"}, nb_repo)

\* a selection rule with the given keys; only nb_repo is read as a value
RuleWith(keys, nb_repo) ==
    [k \in keys |-> IF k = "nb_repo" THEN nb_repo ELSE <<"v">>]

DefaultRule == RuleWith({"include_subdirs"}, NONE)

RuleFor(nb_repo) == RuleWith({"nb_repo", "include_subdirs"}, nb_repo)

ListOf(texts) ==
    [kind |-> "list", items |-> [i \in DOMAIN texts |-> StrItem(texts[i])]]

\* the outputs of an earlier compiling run
CompiledOut ==
    [k \in {"package_versions", "mamba_spec", "pip_requirements_files",
            "mamba_requirements_files", "test_notebooks", "test_imports"} |->
        CASE k = "package_versions" -> ListOf(<<"numpy==1.26">>)
          [] k = "mamba_spec" -> [kind |-> "dict", items |-> <<StrItem("old-env")>>]
          [] k = "pip_requirements_files" -> ListOf(<<"/r/nb/requirements.txt">>)
          [] k = "mamba_requirements_files" -> ListOf(<<>>)
          [] k = "test_notebooks" -> ListOf(<<"/r/nb/old.ipynb">>)
          [] k = "test_imports" -> ListOf(<<"scipy">>)]

Manifest(header, rules) ==
    [keys |-> {"image_spec_header", "selected_notebooks"}, header |-> header,
     rules |-> rules, out |-> EmptyMap]

CompiledManifest(header, rules) ==
    [keys |-> ALLOWED_TOP, header |-> header, rules |-> rules, out |-> CompiledOut]

(***************************************************************************)
(* NotebookCurator._execute_workflow (curator.py), one action per stage.   *)
(* The stage names, in the order of the code:                              *)
(*   init_env      env_manager.initialize_environment                      *)
(*   load, validate            _load_and_validate_spec                     *)
(*   python_version            _check_python_version                       *)
(*   repositories              _setup_repositories                         *)
(*   select        notebook_processor.collect_notebook_paths               *)
(*   requirements, compile     _handle_requirements_compilation            *)
(*   extract       notebook_processor.extract_imports                      *)
(*   revise        _revise_spec_file                                       *)
(*   install, test_imports     _install_and_test_packages                  *)
(*   test          _test_notebooks                                         *)
(*   inject        injector.inject                                         *)
(*   cleanup       repo_manager.cleanup_repos                              *)
(***************************************************************************)
Stages_TestBeforeInstall ==
    <<"init_env", "load", "validate", "python_version", "repositories", "select",
      "requirements", "extract", "revise", "test", "install", "test_imports",
      "inject", "cleanup">>

Stages ==
    <<"init_env", "load", "validate", "python_version", "repositories", "select",
      "requirements", "extract", "revise", "install", "test_imports", "test",
      "inject", "cleanup">>

\* the condition under which the workflow enters a stage
Requested(stage, cfg) ==
    CASE stage = "init_env" -> cfg.init_env
      [] stage \in {"install", "test_imports"} -> cfg.install
      [] stage = "test" -> cfg.test
      [] stage = "inject" -> cfg.inject_spi
      [] stage = "cleanup" -> cfg.cleanup
      [] OTHER -> TRUE

StageIndex(stage) == CHOOSE i \in 1..Len(Stages) : Stages[i] = stage

\* the first requested stage after position i, or "done" (return True)
RECURSIVE StageFrom(_, _)
StageFrom(i, cfg) ==
    IF i > Len(Stages) THEN "done"
    ELSE IF Requested(Stages[i], cfg) THEN Stages[i]
    ELSE StageFrom(i + 1, cfg)

AfterStage_InstallResultIgnored(stage, ok, cfg) ==
    IF ~ok /\ stage # "install"
    THEN [pc |-> "done", result |-> "False"]
    ELSE LET next == StageFrom(StageIndex(stage) + 1, cfg)
         IN  [pc |-> next, result |-> IF next = "done" THEN "True" ELSE "running"]

\* Where the workflow goes when a stage has returned: "if not <stage>: return
\* False", and an exception ends main with the result of logger.exception
AfterStage(stage, ok, cfg) ==
    IF ~ok
    THEN [pc |-> "done", result |-> "False"]
    ELSE LET next == StageFrom(StageIndex(stage) + 1, cfg)
         IN  [pc |-> next, result |-> IF next = "done" THEN "True" ELSE "running"]

\* the stage at pc has returned ok, or has failed (returned false or raised)
Advance(stage, ok) ==
    /\ pc' = AfterStage(stage, ok, config).pc
    /\ result' = AfterStage(stage, ok, config).result
    /\ failedAt' = IF ok THEN failedAt ELSE stage

\* what an external tool, or a stage that rests on one, can do
ToolOutcomes == {"ok", "failed", "raised"}

Configs ==
    [init_env : BOOLEAN, clone : BOOLEAN, compile : BOOLEAN, install : BOOLEAN,
     test : BOOLEAN, inject_spi : BOOLEAN, cleanup : BOOLEAN]

\* the manifest files of the workflow runs
WorkflowDocs ==
    {Manifest(FullHeader(URL_NB), <<DefaultRule>>),
     CompiledManifest(FullHeader(URL_NB), <<RuleFor(URL_EX), DefaultRule>>),
     CompiledManifest(FullHeader(SPI_URL), <<DefaultRule>>),
     CompiledManifest(FullHeader(URL_FILE), <<DefaultRule, RuleFor(URL_NB)>>),
     Manifest(HeaderWith(RequiredHeaderKeys \cup {"kernal_name"}, URL_NB),
              <<DefaultRule>>),
     [keys |-> {"image_spec_header"}, header |-> FullHeader(URL_NB),
      rules |-> <<>>, out |-> EmptyMap]}

DirsFound(paths) == [p \in paths |-> "found"]

\* the file systems a workflow run starts in; __init__ has made repos_dir
WorkflowFileSystems ==
    {DirsFound({REPOS_DIR}),
     DirsFound({REPOS_DIR, PathJoin(REPOS_DIR, RepoName(URL_NB)),
                PathJoin(REPOS_DIR, RepoName(SPI_URL))}),
     DirsFound({REPOS_DIR, PathOf(SliceFrom(URL_NB, 7)),
                PathOf(SliceFrom(URL_EX, 7)), PathOf(SliceFrom(SPI_URL, 7)),
                PathOf(SliceFrom(StrRemove(URL_FILE, FILE_SCHEME), 7))})}

\* what the selector, the extractor and the resolver can come back with
SelectionResults ==
    {<<>>, <<"/r/nb/a.ipynb">>, <<"/r/nb/a.ipynb", "/r/nb/sub/b.ipynb">>}

ExtractionResults == {<<>>, <<"numpy">>, <<"numpy", "astropy">>}

CompileResults == {<<>>, <<"numpy==2.0", "astropy==6.1">>}

InitWorkflow ==
    /\ config \in Configs
    /\ clone = config.clone
    /\ fs \in WorkflowFileSystems
    /\ fs0 = fs
    /\ repos_to_setup = EmptyMap
    /\ urlsArg = <<>>
    /\ vcsLog = <<>>
    /\ resolveLog = <<>>
    /\ ValidatorIdle
    /\ ManagerIdle
    /\ StoreIdle
    /\ pc = StageFrom(1, config)
    /\ result = "running"
    /\ notebook_paths = <<>>
    /\ test_imports = <<>>
    /\ started = <<>>
    /\ failedAt = "none"
    /\ used = [install |-> Unused, test_imports |-> Unused, test_notebooks |-> Unused]
    /\ testRun = NoTestRun
    /\ process = NotExited
    /\ ret = NoRet

\* initialize_environment: create the environment, install the curator
\* packages into it, register it
InitializeEnvironment ==
    /\ pc = "init_env"
    /\ started' = Append(started, "init_env")
    /\ \E outcome \in ToolOutcomes : Advance("init_env", outcome = "ok")
    /\ UNCHANGED <<validatorVars, managerVars, savedFile, lastStored, repoVars,
                   config, testRun, process, notebook_paths, test_imports, used, ret>>

\* validator.load_spec
LoadSpec ==
    /\ pc = "load"
    /\ started' = Append(started, "load")
    /\ \/ \E doc \in WorkflowDocs :
            /\ spec' = doc
            /\ loaded' = doc
            /\ Advance("load", LoggerInfo)
       \/ /\ UNCHANGED <<spec, loaded>>
          /\ Advance("load", LoggerException)
    /\ UNCHANGED <<managerVars, savedFile, lastStored, repoVars, config, testRun, process,
                   notebook_paths, test_imports, used, ret>>

\* validator.validate_spec
ValidateLoadedSpec ==
    /\ pc = "validate"
    /\ started' = Append(started, "validate")
    /\ ret' = [Ret("validate_spec", <<>>, ValidateSpec(spec).ok)
                  EXCEPT !.errors = ValidateSpec(spec).errors]
    /\ Advance("validate", ValidateSpec(spec).ok)
    /\ UNCHANGED <<validatorVars, managerVars, savedFile, lastStored, repoVars,
                   config, testRun, process, notebook_paths, test_imports, used>>

\* _check_python_version
CheckPythonVersion ==
    /\ pc = "python_version"
    /\ started' = Append(started, "python_version")
    /\ \E outcome \in ToolOutcomes : Advance("python_version", outcome = "ok")
    /\ UNCHANGED <<validatorVars, managerVars, savedFile, lastStored, repoVars,
                   config, testRun, process, notebook_paths, test_imports, used, ret>>

\* _setup_repositories
SetupWorkflowRepositories ==
    /\ pc = "repositories"
    /\ started' = Append(started, "repositories")
    /\ LET repo_urls == CuratorRepoUrls(spec)
       IN  \E oracle \in [1..Len(repo_urls) -> GitOutcomes] :
               LET r == SetupRepositories(repo_urls, clone, oracle, fs)
               IN  /\ urlsArg' = repo_urls
                   /\ fs0' = fs
                   /\ fs' = r.fs
                   /\ repos_to_setup' = r.repos_to_setup
                   /\ vcsLog' = vcsLog \o r.vcsLog
                   /\ resolveLog' = resolveLog \o r.resolveLog
                   /\ ret' = Ret("setup_repositories", <<repo_urls>>, r.ok)
                   /\ Advance("repositories", r.ok)
    /\ UNCHANGED <<validatorVars, managerVars, savedFile, lastStored, clone,
                   config, testRun, process, notebook_paths, test_imports, used>>

\* d[key] = value for each <<key, value>> of kvs in turn, from the i-th on
RECURSIVE SetOutputs(_, _, _)
SetOutputs(doc, kvs, i) ==
    IF i > Len(kvs) THEN doc
    ELSE SetOutputs(SetOutputData(doc, kvs[i][1], kvs[i][2]), kvs, i + 1)

\* "Store results in spec" of _handle_requirements_compilation
StoreCompileOutputs(doc, package_versions, mamba_spec, requirements_files, mamba_files) ==
    SetOutputs(doc, <<<<"package_versions", package_versions>>,
                      <<"mamba_spec", mamba_spec>>,
                      <<"pip_requirements_files", StrList(requirements_files)>>,
                      <<"mamba_requirements_files", StrList(mamba_files)>>>>, 1)

StoreReviseOutputs_NotStored(doc, paths, imports) == doc

\* "Update spec with outputs" of _revise_spec_file
StoreReviseOutputs(doc, paths, imports) ==
    SetOutputs(doc, <<<<"test_notebooks", StrList(ListOf(paths))>>,
                      <<"test_imports", ListOf(imports)>>>>, 1)

\* whether collect_notebook_paths finds the repository of some rule set up
SomeRuleSetUp(doc, repos) ==
    \E i \in 1..Len(doc.rules) :
        repos[EntryRepo(doc.rules[i], doc.header["nb_repo"])] # NONE

\* notebook_processor.collect_notebook_paths: a rule whose repository is not
\* set up is skipped; what the others find on disk is an input
CollectNotebookPaths ==
    /\ pc = "select"
    /\ started' = Append(started, "select")
    /\ \E paths \in SelectionResults :
           /\ SomeRuleSetUp(spec, repos_to_setup) \/ paths = <<>>
           /\ notebook_paths' = paths
           /\ Advance("select", paths # <<>>)
    /\ UNCHANGED <<validatorVars, managerVars, savedFile, lastStored, repoVars,
                   config, testRun, process, test_imports, used, ret>>

\* _handle_requirements_compilation: the requirement files are always looked
\* for; the resolver runs and its results are stored if config.compile.  The
\* deployment_name and kernel_name properties raise KeyError on a header
\* without them.
HandleRequirementsCompilation ==
    /\ pc = "requirements"
    /\ started' = started \o <<"requirements">>
                          \o (IF config.compile
                                 /\ {"deployment_name", "kernel_name"}
                                        \subseteq DOMAIN spec.header
                              THEN <<"compile">> ELSE <<>>)
    /\ IF ~({"deployment_name", "kernel_name"} \subseteq DOMAIN spec.header)
       THEN /\ Advance("requirements", LoggerException)
            /\ UNCHANGED spec
       ELSE IF ~config.compile
       THEN /\ Advance("requirements", TRUE)
            /\ UNCHANGED spec
       ELSE \E package_versions \in CompileResults, raised \in BOOLEAN :
               IF raised
               THEN /\ Advance("compile", LoggerException)
                    /\ UNCHANGED spec
               ELSE IF package_versions = <<>>
               THEN /\ Advance("compile", FALSE)
                    /\ UNCHANGED spec
               ELSE /\ spec' = StoreCompileOutputs(
                                   spec, ListOf(package_versions),
                                   [kind |-> "dict", items |-> <<StrItem("new-env")>>],
                                   ListOf(<<"/r/nb/requirements.txt">>), ListOf(<<>>))
                    /\ Advance("requirements", TRUE)
    /\ UNCHANGED <<loaded, managerVars, savedFile, lastStored, repoVars, config, testRun, process,
                   notebook_paths, test_imports, used, ret>>

\* notebook_processor.extract_imports
ExtractImports ==
    /\ pc = "extract"
    /\ started' = Append(started, "extract")
    /\ \E imports \in ExtractionResults, raised \in BOOLEAN :
           /\ test_imports' = IF raised THEN test_imports ELSE imports
           /\ Advance("extract", ~raised /\ imports # <<>>)
    /\ UNCHANGED <<validatorVars, managerVars, savedFile, lastStored, repoVars,
                   config, testRun, process, notebook_paths, used, ret>>

\* _revise_spec_file: the two outputs are stored, then the manifest is dumped
\* to config.spec_file_out
ReviseSpecFile ==
    /\ pc = "revise"
    /\ started' = Append(started, "revise")
    /\ spec' = StoreReviseOutputs(spec, notebook_paths, test_imports)
    /\ \E written \in BOOLEAN :
           /\ savedFile' = IF written THEN [state |-> "written", doc |-> spec']
                           ELSE [state |-> "torn", doc |-> EmptyDoc]
           /\ Advance("revise", IF written THEN LoggerInfo ELSE LoggerException)
    /\ UNCHANGED <<loaded, managerVars, lastStored, repoVars, config, testRun, process,
                   notebook_paths, test_imports, used, ret>>

\* _install_and_test_packages up to the return of install_packages, which
\* runs no tool on an empty package list and returns what logger.warning
\* returns (a value the sources do not show: both are taken)
InstallPackages ==
    /\ pc = "install"
    /\ started' = Append(started, "install")
    /\ LET package_versions == GetOutputData(spec, "package_versions", ListOf(<<>>))
       IN  /\ used' = [used EXCEPT !.install = package_versions]
           /\ IF package_versions.items = <<>>
              THEN \E warning \in BOOLEAN : Advance("install", warning)
              ELSE \E outcome \in ToolOutcomes : Advance("install", outcome = "ok")
    /\ UNCHANGED <<validatorVars, managerVars, savedFile, lastStored, repoVars,
                   config, testRun, process, notebook_paths, test_imports, ret>>

\* env_manager.test_imports(test_imports)
TestImports ==
    /\ pc = "test_imports"
    /\ started' = Append(started, "test_imports")
    /\ used' = [used EXCEPT !.test_imports = ListOf(test_imports)]
    /\ \E outcome \in ToolOutcomes : Advance("test_imports", outcome = "ok")
    /\ UNCHANGED <<validatorVars, managerVars, savedFile, lastStored, repoVars,
                   config, testRun, process, notebook_paths, test_imports, ret>>

\* _test_notebooks(notebook_paths)
TestNotebooks ==
    /\ pc = "test"
    /\ started' = Append(started, "test")
    /\ used' = [used EXCEPT !.test_notebooks = ListOf(notebook_paths)]
    /\ \E outcome \in ToolOutcomes : Advance("test", outcome = "ok")
    /\ UNCHANGED <<validatorVars, managerVars, savedFile, lastStored, repoVars,
                   config, testRun, process, notebook_paths, test_imports, ret>>

\* the fields SpiInjector.inject writes, in its order
INJECT_FIELDS ==
    <<"notebook_repo_urls", "mamba_spec", "package_versions", "test_imports",
      "test_notebooks">>

\* _inject raises ValueError for a field that is neither dict, list nor str,
\* which None, the value of a missing field, is not
Injectable(doc) ==
    \A i \in 1..Len(INJECT_FIELDS) :
        GetOutputData(doc, INJECT_FIELDS[i], Unused).kind \in {"dict", "list", "str"}

\* injector.inject: its return value is not looked at, an exception ends main
Inject ==
    /\ pc = "inject"
    /\ started' = Append(started, "inject")
    /\ \E ioError \in BOOLEAN :
           Advance("inject", IF Injectable(spec) /\ ~ioError THEN TRUE
                             ELSE LoggerException)
    /\ UNCHANGED <<validatorVars, managerVars, savedFile, lastStored, repoVars,
                   config, testRun, process, notebook_paths, test_imports, used, ret>>

\* repo_manager.cleanup_repos
Cleanup ==
    /\ pc = "cleanup"
    /\ started' = Append(started, "cleanup")
    /\ \E rmtreeRaises \in BOOLEAN :
           LET r == CleanupRepos(fs, rmtreeRaises)
           IN  /\ fs' = r.fs
               /\ ret' = Ret("cleanup_repos", <<>>, r.value)
               /\ Advance("cleanup", r.value = "True")
    /\ UNCHANGED <<validatorVars, managerVars, savedFile, lastStored, clone,
                   repos_to_setup, fs0, urlsArg, vcsLog, resolveLog, config, testRun, process,
                   notebook_paths, test_imports, used>>

Next ==
    \/ InitializeEnvironment
    \/ LoadSpec
    \/ ValidateLoadedSpec
    \/ CheckPythonVersion
    \/ SetupWorkflowRepositories
    \/ CollectNotebookPaths
    \/ HandleRequirementsCompilation
    \/ ExtractImports
    \/ ReviseSpecFile
    \/ InstallPackages
    \/ TestImports
    \/ TestNotebooks
    \/ Inject
    \/ Cleanup

\* one run of NotebookCurator.main
Spec == InitWorkflow /\ [][Next]_vars

(***************************************************************************)
(* Properties of the workflow (checked under Spec).                        *)
(***************************************************************************)
\* the position of the first start of stage in started, 0 if it never started
PositionOf(stage) ==
    IF InSeq(stage, started)
    THEN CHOOSE i \in 1..Len(started) :
             started[i] = stage /\ \A j \in 1..(i - 1) : started[j] # stage
    ELSE 0

\* the stages with an effect outside the process that C1 names
EffectStages ==
    {"init_env", "repositories", "compile", "install", "test", "inject", "cleanup"}

\* C1: no stage with an external effect (environment creation/registration,
\* repository resolution, compilation, install, test, inject, cleanup) starts
\* before the manifest has been loaded and has passed validation; and when
\* load or validation fails the run returns failure with none of them started.
C1_NoEffectBeforeValidation ==
    /\ \A i \in 1..Len(started) :
           started[i] \in EffectStages =>
               /\ 0 < PositionOf("validate")
               /\ PositionOf("validate") < i
               /\ ValidateSpec(loaded).ok
    /\ failedAt \in {"load", "validate"} =>
           /\ result = "False"
           /\ \A i \in 1..Len(started) : started[i] \notin EffectStages

\* C2: once a stage has reported failure (returned false or raised) the run is
\* over with the result failure, the failed stage is the last one that was
\* started, and no stage is started twice (no retry).
C2_FailureHaltsRun ==
    /\ NoDuplicates(started)
    /\ failedAt # "none" =>
           /\ pc = "done"
           /\ result = "False"
           /\ started # <<>>
           /\ started[Len(started)] = failedAt

\* a run in which install failed while test, inject and cleanup were requested
C2_Witness ==
    /\ failedAt = "install"
    /\ config.test /\ config.inject_spi /\ config.cleanup
    /\ pc = "done"

\* the stages that change the environment's installed packages
EnvModifyingStages == {"init_env", "install"}

\* C3: in a run with install and test requested, the notebook test starts only
\* after install_packages and the import self-test have run and succeeded, and
\* no stage that modifies the environment's installed packages starts once the
\* notebook test has started.
C3_InstallBeforeTest ==
    /\ (config.install /\ InSeq("test", started)) =>
           /\ 0 < PositionOf("install")
           /\ PositionOf("install") < PositionOf("test_imports")
           /\ PositionOf("test_imports") < PositionOf("test")
           /\ failedAt \notin {"install", "test_imports"}
    /\ \A i, j \in 1..Len(started) :
           (i < j /\ started[i] = "test") => started[j] \notin EnvModifyingStages

\* a successful run with init_env, install, test and cleanup all requested
C3_Witness ==
    /\ config.init_env /\ config.install /\ config.test /\ config.cleanup
    /\ InSeq("test", started)
    /\ pc = "done"
    /\ result = "True"

\* C4: in a run without compile against a manifest that was compiled before,
\* selection, import extraction and requirement-file discovery are not re-run,
\* and install, the import self-test and the notebook test are given the
\* persisted package list, import names and notebook paths.
C4_LaterStagesReadPersistedOutputs ==
    (~config.compile /\ "out" \in loaded.keys /\ pc = "done") =>
        /\ \A i \in 1..Len(started) :
               started[i] \notin {"select", "requirements", "extract"}
        /\ InSeq("install", started) =>
               used.install = loaded.out["package_versions"]
        /\ InSeq("test_imports", started) =>
               used.test_imports = loaded.out["test_imports"]
        /\ InSeq("test", started) =>
               used.test_notebooks = loaded.out["test_notebooks"]

\* C10: within one run each distinct repository URL is resolved at most once,
\* also when the manifest names the injector's repository.
C10_EachUrlResolvedOnce ==
    \A i, j \in 1..Len(resolveLog) :
        i # j => resolveLog[i].url # resolveLog[j].url

(***************************************************************************)
(* SpecValidator on its own: one load_spec, then validate_spec, over       *)
(* documents of every shape the key sets below can build.                  *)
(***************************************************************************)
\* top-level keys a document may have: the three known ones and a misspelt one
TopKeyChoices == {"image_spec_header", "selected_notebooks", "out", "selected_notebook"}

\* header key sets: the required fields with at most one of them missing, with
\* or without an optional field and a misspelt one
HeaderKeySets ==
    {(RequiredHeaderKeys \ missing) \cup extra :
        missing \in {{}} \cup {{f} : f \in RequiredHeaderKeys},
        extra \in SUBSET {"root_nb_directory", "kernal_name"}}

\* selection-rule key sets: a known key, a misspelt one, both or none
RuleKeySets == SUBSET {"nb_repo", "include_subdir"}

ValidationDocs ==
    {[keys   |-> keys,
      header |-> IF "image_spec_header" \in keys THEN HeaderWith(hk, URL_NB)
                 ELSE EmptyMap,
      rules  |-> IF "selected_notebooks" \in keys
                 THEN [i \in DOMAIN rk |-> RuleWith(rk[i], URL_EX)]
                 ELSE <<>>,
      out    |-> EmptyMap] :
        keys \in SUBSET TopKeyChoices,
        hk \in HeaderKeySets,
        rk \in SeqsUpTo(RuleKeySets, MaxRules)}

InitValidate ==
    /\ ValidatorIdle
    /\ ManagerIdle
    /\ StoreIdle
    /\ RepoIdle
    /\ WorkflowIdle
    /\ pc = "validator_new"
    /\ ret = NoRet

\* SpecValidator.load_spec: the document is read, or reading raises and the
\* spec stays what it was
ValidatorLoadSpec ==
    /\ pc = "validator_new"
    /\ pc' = "validator_loaded"
    /\ \/ \E doc \in ValidationDocs :
            /\ spec' = doc
            /\ loaded' = doc
            /\ ret' = Ret("load_spec", <<>>, LoggerInfo)
       \/ /\ UNCHANGED <<spec, loaded>>
          /\ ret' = Ret("load_spec", <<>>, LoggerException)
    /\ UNCHANGED <<managerVars, savedFile, lastStored, repoVars, workflowVars>>

\* SpecValidator.validate_spec
ValidatorValidateSpec ==
    /\ pc = "validator_loaded"
    /\ pc' = "validator_validated"
    /\ ret' = [Ret("validate_spec", <<>>, ValidateSpec(spec).ok)
                  EXCEPT !.errors = ValidateSpec(spec).errors]
    /\ UNCHANGED <<validatorVars, managerVars, savedFile, lastStored, repoVars,
                   workflowVars>>

NextValidate == ValidatorLoadSpec \/ ValidatorValidateSpec

SpecValidate == InitValidate /\ [][NextValidate]_vars

\* C5: validate_spec returns success only for a document with no top-level
\* key outside the three allowed ones, no header key outside the nine header
\* keywords and no key of any selection rule outside the four selection
\* keywords; one unknown key at any of the three levels makes it fail.
C5_OnlyKnownKeysValidate ==
    (ret.op = "validate_spec" /\ ret.value) =>
        /\ spec.keys \subseteq {"image_spec_header", "selected_notebooks", "out"}
        /\ DOMAIN spec.header \subseteq
               {"image_name", "description", "valid_on", "expires_on",
                "python_version", "nb_repo", "root_nb_directory",
                "deployment_name", "kernel_name"}
        /\ \A i \in 1..Len(spec.rules) :
               DOMAIN spec.rules[i] \subseteq
                   {"nb_repo", "root_nb_directory", "include_subdirs",
                    "exclude_subdirs"}

\* validation has failed on a document whose only defect is one unknown key in
\* its second selection rule
C5_Witness ==
    /\ ret.op = "validate_spec"
    /\ ~ret.value
    /\ ValidateTopLevelStructure(spec).ok
    /\ ValidateHeaderSection(spec).ok
    /\ Len(spec.rules) = 2
    /\ DOMAIN spec.rules[1] = {"nb_repo"}
    /\ DOMAIN spec.rules[2] = {"include_subdir"}

(***************************************************************************)
(* SpecManager on its own: load_spec, validate and get_repository_urls in  *)
(* any order and any number of times.                                      *)
(***************************************************************************)
UrlChoices == {URL_NB, URL_EX, SPI_URL}

\* valid manifests over every choice of the default repository and of the
\* rules' overrides, and two documents that do not validate
ManagerDocs ==
    {Manifest(FullHeader(nb_repo), rules) :
        nb_repo \in UrlChoices,
        rules \in SeqsUpTo({DefaultRule} \cup {RuleFor(u) : u \in UrlChoices},
                           MaxRules)}
    \cup {Manifest(HeaderWith(RequiredHeaderKeys \cup {"kernal_name"}, URL_NB),
                   <<DefaultRule>>),
          [keys |-> {"selected_notebooks"}, header |-> EmptyMap,
           rules |-> <<DefaultRule>>, out |-> EmptyMap]}

InitManager ==
    /\ ValidatorIdle
    /\ ManagerIdle
    /\ StoreIdle
    /\ RepoIdle
    /\ WorkflowIdle
    /\ pc = "manager"
    /\ ret = NoRet

\* SpecManager.load_spec: _spec is replaced on success; _is_validated is not
\* touched
ManagerLoadSpec ==
    /\ pc = "manager"
    /\ \/ \E doc \in ManagerDocs :
            /\ managerSpec' = doc
            /\ ret' = Ret("load_spec", <<>>, LoggerInfo)
       \/ /\ UNCHANGED managerSpec
          /\ ret' = Ret("load_spec", <<>>, LoggerException)
    /\ UNCHANGED <<isValidated, validatorVars, savedFile, lastStored, repoVars,
                   workflowVars, pc>>

\* SpecManager.validate
ManagerValidate ==
    /\ pc = "manager"
    /\ IF managerSpec = EmptyDoc
       THEN /\ ret' = [Ret("validate", <<>>, LoggerError)
                          EXCEPT !.errors = <<"not_loaded">>]
            /\ UNCHANGED isValidated
       ELSE IF ~ValidateSpec(managerSpec).ok
       THEN /\ ret' = [Ret("validate", <<>>, LoggerError)
                          EXCEPT !.errors = ValidateSpec(managerSpec).errors
                                            \o <<"validation_failed">>]
            /\ UNCHANGED isValidated
       ELSE /\ isValidated' = TRUE
            /\ ret' = Ret("validate", <<>>, LoggerInfo)
    /\ UNCHANGED <<managerSpec, validatorVars, savedFile, lastStored, repoVars,
                   workflowVars, pc>>

\* whether the lookups of get_repository_urls find their keys
HasRepositoryKeys(doc) ==
    /\ {"image_spec_header", "selected_notebooks"} \subseteq doc.keys
    /\ "nb_repo" \in DOMAIN doc.header

\* SpecManager.get_repository_urls: _ensure_validated raises RuntimeError
ManagerGetRepositoryUrls ==
    /\ pc = "manager"
    /\ ret' = IF ~isValidated
              THEN Raised("get_repository_urls", <<>>, "RuntimeError")
              ELSE IF ~HasRepositoryKeys(managerSpec)
              THEN Raised("get_repository_urls", <<>>, "KeyError")
              ELSE Ret("get_repository_urls", <<>>, GetRepositoryUrls(managerSpec))
    /\ UNCHANGED <<managerVars, validatorVars, savedFile, lastStored, repoVars,
                   workflowVars, pc>>

NextManager == ManagerLoadSpec \/ ManagerValidate \/ ManagerGetRepositoryUrls

SpecManager == InitManager /\ [][NextManager]_vars

\* the first rule of doc, by position, whose repository is url
FirstRuleFor(doc, url) ==
    CHOOSE i \in 1..Len(doc.rules) :
        /\ EntryRepo(doc.rules[i], doc.header["nb_repo"]) = url
        /\ \A j \in 1..(i - 1) : EntryRepo(doc.rules[j], doc.header["nb_repo"]) # url

\* C6: repository_urls() returns the header's default repository URL first,
\* then each distinct override of a selection rule in the order the rules are
\* met, no URL twice.
C6_DefaultFirstThenEncounterOrder ==
    (ret.op = "get_repository_urls" /\ ret.raised = ""
        /\ isValidated /\ ValidateSpec(managerSpec).ok) =>
        LET urls    == ret.value
            default == managerSpec.header["nb_repo"]
        IN  /\ urls # <<>>
            /\ urls[1] = default
            /\ NoDuplicates(urls)
            /\ SeqRange(urls) =
                   {default} \cup {EntryRepo(managerSpec.rules[i], default) :
                                       i \in 1..Len(managerSpec.rules)}
            /\ \A a, b \in 2..Len(urls) :
                   a < b => FirstRuleFor(managerSpec, urls[a])
                                < FirstRuleFor(managerSpec, urls[b])

(***************************************************************************)
(* The outputs store on its own: set_output_data, get_output_data and      *)
(* revise_and_save of SpecManager on its document, and the two pipeline    *)
(* stages that write outputs on the curator's document, in any order and   *)
(* any number of times.  lastStored is keyed by <<owner, key>>.            *)
(***************************************************************************)
StoreKeys == {"package_versions", "note"}

StoreValues ==
    {ListOf(<<"numpy==2.0">>),
     [kind |-> "list", items |-> <<PathItem("/r/nb/a.ipynb")>>]}

\* the keyword arguments revise_and_save is called with
AdditionalOutputs ==
    {<<>>,
     <<<<"test_notebooks", [kind |-> "list", items |-> <<PathItem("/r/nb/a.ipynb")>>]>>,
       <<"test_imports", ListOf(<<"numpy">>)>>>>}

StoreDocs ==
    {Manifest(FullHeader(URL_NB), <<DefaultRule>>),
     CompiledManifest(FullHeader(URL_NB), <<DefaultRule>>)}

\* the outputs a document holds
OutOf(doc) == IF "out" \in doc.keys THEN doc.out ELSE EmptyMap

\* the record of what a freshly loaded document holds, for both owners
LoadedOutputs(doc) ==
    [ok \in {"manager", "curator"} \X DOMAIN OutOf(doc) |-> OutOf(doc)[ok[2]]]

\* the record after kvs have been stored by owner, from the i-th on
RECURSIVE Recorded(_, _, _, _)
Recorded(last, owner, kvs, i) ==
    IF i > Len(kvs) THEN last
    ELSE Recorded(MapSet(last, <<owner, kvs[i][1]>>, kvs[i][2]), owner, kvs, i + 1)

InitStore ==
    /\ \E doc \in StoreDocs :
           /\ managerSpec = doc
           /\ spec = doc
           /\ loaded = doc
           /\ lastStored = LoadedOutputs(doc)
    /\ isValidated = TRUE
    /\ savedFile = NotSaved
    /\ RepoIdle
    /\ WorkflowIdle
    /\ pc = "store"
    /\ ret = NoRet

StoreSetOutputData ==
    /\ pc = "store"
    /\ \E key \in StoreKeys, value \in StoreValues :
           /\ managerSpec' = SetOutputData(managerSpec, key, value)
           /\ lastStored' = MapSet(lastStored, <<"manager", key>>, value)
           /\ ret' = Ret("set_output_data", <<key, value>>, NoneValue)
    /\ UNCHANGED <<isValidated, validatorVars, savedFile, repoVars, workflowVars, pc>>

StoreGetOutputData ==
    /\ pc = "store"
    /\ \E key \in StoreKeys, default \in {NoneValue} :
           ret' = Ret("get_output_data", <<key, default>>,
                      GetOutputData(managerSpec, key, default))
    /\ UNCHANGED <<managerVars, validatorVars, savedFile, lastStored, repoVars,
                   workflowVars, pc>>

\* SpecManager.revise_and_save: the outputs are set, then save_spec dumps
\* the document, or raises while writing
StoreReviseAndSave ==
    /\ pc = "store"
    /\ \E additional_outputs \in AdditionalOutputs, written \in BOOLEAN :
           /\ managerSpec' = ReviseOutputs(managerSpec, additional_outputs, 1)
           /\ lastStored' =
                  Recorded(lastStored, "manager",
                           [i \in DOMAIN additional_outputs |->
                               LET value == additional_outputs[i][2]
                               IN  <<additional_outputs[i][1],
                                     IF value.kind = "list"
                                     THEN [value EXCEPT !.items =
                                              [j \in DOMAIN @ |-> StrItem(@[j].text)]]
                                     ELSE value>>], 1)
           /\ savedFile' = IF written
                           THEN [state |-> "written", doc |-> managerSpec']
                           ELSE [state |-> "torn", doc |-> EmptyDoc]
           /\ ret' = Ret("revise_and_save", <<>>,
                         IF written THEN LoggerInfo ELSE LoggerException)
    /\ UNCHANGED <<isValidated, validatorVars, repoVars, workflowVars, pc>>

\* the compile stage's writes (curator.py, "Store results in spec")
StoreCompileStage ==
    /\ pc = "store"
    /\ \E package_versions \in CompileResults \ {<<>>} :
           /\ spec' = StoreCompileOutputs(
                          spec, ListOf(package_versions),
                          [kind |-> "dict", items |-> <<StrItem("new-env")>>],
                          ListOf(<<"/r/nb/requirements.txt">>), ListOf(<<>>))
           /\ lastStored' =
                  Recorded(lastStored, "curator",
                           <<<<"package_versions", ListOf(package_versions)>>,
                             <<"mamba_spec",
                               [kind |-> "dict", items |-> <<StrItem("new-env")>>]>>,
                             <<"pip_requirements_files",
                               ListOf(<<"/r/nb/requirements.txt">>)>>,
                             <<"mamba_requirements_files", ListOf(<<>>)>>>>, 1)
           /\ ret' = Ret("_handle_requirements_compilation", <<>>, TRUE)
    /\ UNCHANGED <<loaded, managerVars, savedFile, repoVars, workflowVars, pc>>

\* the revise stage's writes (curator.py, "Update spec with outputs")
StoreReviseStage ==
    /\ pc = "store"
    /\ \E paths \in {<<"/r/nb/a.ipynb">>}, imports \in {<<"numpy">>},
          written \in BOOLEAN :
           /\ spec' = StoreReviseOutputs(spec, paths, imports)
           /\ lastStored' =
                  Recorded(lastStored, "curator",
                           <<<<"test_notebooks", ListOf(paths)>>,
                             <<"test_imports", ListOf(imports)>>>>, 1)
           /\ savedFile' = IF written THEN [state |-> "written", doc |-> spec']
                           ELSE [state |-> "torn", doc |-> EmptyDoc]
           /\ ret' = Ret("_revise_spec_file", <<>>,
                         IF written THEN LoggerInfo ELSE LoggerException)
    /\ UNCHANGED <<loaded, managerVars, repoVars, workflowVars, pc>>

NextStore ==
    \/ StoreSetOutputData
    \/ StoreGetOutputData
    \/ StoreReviseAndSave
    \/ StoreCompileStage
    \/ StoreReviseStage

SpecStore == InitStore /\ [][NextStore]_vars

\* the keys owner's store has ever held
EverPresent(owner) == {ok[2] : ok \in {x \in DOMAIN lastStored : x[1] = owner}}

\* C7: the outputs store is append/overwrite only.  Every key that was ever
\* present is still present, each key holds the value last stored under it
\* (so storing under one key changed no other), and get_output_data returns
\* the value last stored under the key, or the default if none ever was.
C7_StoreAppendOverwriteOnly ==
    /\ \A owner \in {"manager", "curator"} :
           LET out == OutOf(IF owner = "manager" THEN managerSpec ELSE spec)
           IN  /\ EverPresent(owner) = DOMAIN out
               /\ DOMAIN OutOf(loaded) \subseteq DOMAIN out
               /\ \A k \in DOMAIN out : out[k] = lastStored[<<owner, k>>]
    /\ ret.op = "get_output_data" =>
           ret.value = IF <<"manager", ret.args[1]>> \in DOMAIN lastStored
                       THEN lastStored[<<"manager", ret.args[1]>>]
                       ELSE ret.args[2]

\* a second key has been stored after a first and both are held, and a read
\* of a key stored twice has returned its later value
C7_Witness ==
    /\ ret.op = "get_output_data"
    /\ ret.value = ListOf(<<"numpy==2.0">>)
    /\ ret.args[1] = "package_versions"
    /\ "package_versions" \in DOMAIN OutOf(loaded)
    /\ OutOf(loaded)["package_versions"] # ret.value
    /\ "note" \in DOMAIN OutOf(managerSpec)
    /\ Cardinality(DOMAIN OutOf(managerSpec)) > Cardinality(DOMAIN OutOf(loaded))

(***************************************************************************)
(* RepositoryManager on its own: one setup_repositories on a list of URLs, *)
(* and cleanup_repos before or after it.                                   *)
(***************************************************************************)
MaxUrls == 2

RepoUrls == {URL_NB, URL_EX, URL_FILE}

\* the directory a remote URL is cloned to
CloneDir(repo_url) == PathJoin(REPOS_DIR, RepoName(repo_url))

\* the file systems the manager starts in: without repos_dir, with it empty,
\* with one clone, with every clone, and with the local paths of the URLs
RepoFileSystems ==
    {EmptyMap,
     DirsFound({REPOS_DIR}),
     DirsFound({REPOS_DIR, CloneDir(URL_NB)}),
     DirsFound({REPOS_DIR} \cup {CloneDir(u) : u \in RepoUrls}),
     DirsFound({REPOS_DIR, PathOf(SliceFrom(URL_NB, 7)),
                PathOf(SliceFrom(StrRemove(URL_FILE, FILE_SCHEME), 7))})}

InitRepo ==
    /\ ValidatorIdle
    /\ ManagerIdle
    /\ StoreIdle
    /\ WorkflowIdle
    /\ clone \in BOOLEAN
    /\ fs \in RepoFileSystems
    /\ fs0 = fs
    /\ repos_to_setup = EmptyMap
    /\ urlsArg = <<>>
    /\ vcsLog = <<>>
    /\ resolveLog = <<>>
    /\ pc = "repo_new"
    /\ ret = NoRet

RepoSetupRepositories ==
    /\ pc = "repo_new"
    /\ \E repo_urls \in SeqsUpTo(RepoUrls, MaxUrls) :
       \E oracle \in [1..Len(repo_urls) -> GitOutcomes] :
           LET r == SetupRepositories(repo_urls, clone, oracle, fs)
           IN  /\ urlsArg' = repo_urls
               /\ fs0' = fs
               /\ fs' = r.fs
               /\ repos_to_setup' = r.repos_to_setup
               /\ vcsLog' = r.vcsLog
               /\ resolveLog' = r.resolveLog
               /\ ret' = Ret("setup_repositories", <<repo_urls>>, r.ok)
    /\ pc' = "repo_set_up"
    /\ UNCHANGED <<validatorVars, managerVars, savedFile, lastStored, clone,
                   workflowVars>>

RepoCleanupRepos ==
    /\ pc \in {"repo_new", "repo_set_up"}
    /\ \E rmtreeRaises \in BOOLEAN :
           LET r == CleanupRepos(fs, rmtreeRaises)
           IN  /\ fs' = r.fs
               /\ ret' = Ret("cleanup_repos", <<>>, r.value)
    /\ pc' = "repo_cleaned"
    /\ UNCHANGED <<validatorVars, managerVars, savedFile, lastStored, clone,
                   repos_to_setup, fs0, urlsArg, vcsLog, resolveLog, workflowVars>>

NextRepo == RepoSetupRepositories \/ RepoCleanupRepos

SpecRepo == InitRepo /\ [][NextRepo]_vars

\* C8: setup_repositories fails fast.  The URLs are attempted in list
\* order; a URL that does not resolve is the last one attempted and the
\* call returns False; the call returns True only after every URL resolved;
\* no git command is run for a URL that was not attempted.
C8_SetupFailsFast ==
    pc = "repo_set_up" =>
        /\ Len(resolveLog) <= Len(urlsArg)
        /\ \A i \in 1..Len(resolveLog) :
               /\ resolveLog[i].url = urlsArg[i]
               /\ resolveLog[i].path = NONE =>
                      (i = Len(resolveLog) /\ ret.value = FALSE)
        /\ ret.value = TRUE => Len(resolveLog) = Len(urlsArg)
        /\ ret.value = FALSE =>
               (resolveLog # <<>> /\ resolveLog[Len(resolveLog)].path = NONE)
        /\ \A j \in 1..Len(vcsLog) :
               \E i \in 1..Len(resolveLog) : vcsLog[j].dir = CloneDir(resolveLog[i].url)
        /\ Len(vcsLog) <= Len(resolveLog)

\* the first URL of two did not resolve and the second was left alone
C8_Witness ==
    /\ pc = "repo_set_up"
    /\ Len(urlsArg) = 2
    /\ Len(resolveLog) = 1
    /\ resolveLog[1].path = NONE
    /\ ret.value = FALSE
    /\ clone

\* C9: in clone mode a URL whose clone directory exists is resolved to that
\* directory as it is: no git command is run for it and its contents are
\* unchanged.
C9_ExistingClonesReusedAsIs ==
    (pc = "repo_set_up" /\ clone) =>
        \A i \in 1..Len(resolveLog) :
            LET repo_dir == CloneDir(resolveLog[i].url)
            IN  Exists(repo_dir, fs0) /\ repo_dir # <<".">> =>
                    /\ resolveLog[i].path = repo_dir
                    /\ \A j \in 1..Len(vcsLog) : vcsLog[j].dir # repo_dir
                    /\ fs[repo_dir] = fs0[repo_dir]

(***************************************************************************)
(* Selection on its own: one call of collect_notebook_paths, of either     *)
(* class, on a manifest whose repository is set up.                        *)
(***************************************************************************)
NB_DIR == CloneDir(URL_NB)

T_DIR == PathJoin(NB_DIR, <<"t">>)

CHECKPOINT_DIR ==
    PathJoin(T_DIR, <<".", "i", "p", "y", "n", "b", "_", "c", "h", "e", "c", "k",
                      "p", "o", "i", "n", "t", "s">>)

\* a.ipynb, t/b.ipynb, t/c.ipynb and the checkpoint copy of t/b.ipynb
NB_A == PathJoin(NB_DIR, <<"a">> \o IPYNB)

NB_B == PathJoin(T_DIR, <<"b">> \o IPYNB)

NB_C == PathJoin(T_DIR, <<"c">> \o IPYNB)

NB_B_CHECKPOINT ==
    PathJoin(CHECKPOINT_DIR,
             <<"b", "-", "c", "h", "e", "c", "k", "p", "o", "i", "n", "t">> \o IPYNB)

FilesFound(paths) == [p \in paths |-> "file"]

SelectFileSystems ==
    {DirsFound({REPOS_DIR, NB_DIR, T_DIR}) @@ FilesFound({NB_A, NB_B, NB_C}),
     DirsFound({REPOS_DIR, NB_DIR, T_DIR, CHECKPOINT_DIR})
         @@ FilesFound({NB_A, NB_B, NB_B_CHECKPOINT})}

\* selection rules: without keys, with subdirectory names or patterns to
\* include and to exclude, with a notebook root
SelectRules ==
    {EmptyMap,
     [k \in {"include_subdirs"} |-> <<DOT>>],
     [k \in {"include_subdirs"} |-> <<<<"t">>>>],
     [k \in {"include_subdirs"} |-> <<DOT, <<"t">>>>],
     [k \in {"include_subdirs"} |-> <<<<"q">>>>],
     [k \in {"include_subdirs"} |-> <<<<"a">>>>],
     [k \in {"include_subdirs", "exclude_subdirs"} |->
         IF k = "include_subdirs" THEN <<DOT>> ELSE <<<<"b">>>>],
     [k \in {"root_nb_directory"} |-> <<"t">>]}

SelectDocs ==
    {Manifest(FullHeader(URL_NB), rules) : rules \in SeqsUpTo(SelectRules, MaxRules)}

\* the "*.ipynb" entries of a file system
NotebookEntries(files) == {p \in DOMAIN files : EndsWith(LastSegment(p), IPYNB)}

InitSelect ==
    /\ \E doc \in SelectDocs :
           /\ spec = doc
           /\ loaded = doc
           /\ managerSpec = doc
    /\ isValidated = TRUE
    /\ StoreIdle
    /\ WorkflowIdle
    /\ clone = FALSE
    /\ fs \in SelectFileSystems
    /\ fs0 = fs
    /\ repos_to_setup = [u \in {URL_NB} |-> NB_DIR]
    /\ urlsArg = <<URL_NB>>
    /\ vcsLog = <<>>
    /\ resolveLog = <<>>
    /\ pc = "select_new"
    /\ ret = NoRet

\* notebook_processor.collect_notebook_paths(self.spec, self.repos_to_setup)
SelectByProcessor ==
    /\ pc = "select_new"
    /\ \E order \in Perms(NotebookEntries(fs)) :
           ret' = Ret("NotebookProcessor.collect_notebook_paths", <<order>>,
                      ProcessorCollect(spec, 1, repos_to_setup, fs, order))
    /\ pc' = "selected"
    /\ UNCHANGED <<validatorVars, managerVars, savedFile, lastStored, repoVars,
                   workflowVars>>

\* spec_manager.collect_notebook_paths(repos_dir, nb_repos)
SelectByManager ==
    /\ pc = "select_new"
    /\ \E order \in Perms(NotebookEntries(fs)) :
           ret' = Ret("SpecManager.collect_notebook_paths", <<order>>,
                      ManagerCollect(managerSpec, 1, REPOS_DIR, fs, order))
    /\ pc' = "selected"
    /\ UNCHANGED <<validatorVars, managerVars, savedFile, lastStored, repoVars,
                   workflowVars>>

NextSelect == SelectByProcessor \/ SelectByManager

SpecSelect == InitSelect /\ [][NextSelect]_vars

\* whether a path lies inside a checkpoint directory
InCheckpointDir(path) ==
    Contains(path, <<"/", ".", "i", "p", "y", "n", "b", "_", "c", "h", "e", "c",
                     "k", "p", "o", "i", "n", "t", "s", "/">>)

\* the base directory of a rule: its own root, else the header's, else the
\* repository's
BaseDirOf(doc, entry) ==
    LET repo_dir == repos_to_setup[EntryRepo(entry, doc.header["nb_repo"])]
        root     == EntryGet(entry, "root_nb_directory",
                             EntryGet(doc.header, "root_nb_directory", <<>>))
    IN  IF root = <<>> THEN repo_dir ELSE PathJoin(repo_dir, root)

\* C11: for one selection rule, the notebook files selected are exactly those
\* under the rule's base directory whose path matches (regular-expression
\* search) some include pattern (default: "."), matches no exclude pattern
\* and is not inside a checkpoint directory.
C11_SelectKeepsIncludedNotExcluded ==
    (pc = "selected" /\ Len(spec.rules) = 1) =>
        LET entry    == spec.rules[1]
            base     == BaseDirOf(spec, entry)
            includes == EntryGet(entry, "include_subdirs", <<DOT>>)
            excludes == EntryGet(entry, "exclude_subdirs", <<>>)
        IN  SeqRange(ret.value) =
                {p \in NotebookEntries(fs) :
                    /\ fs[p] = "file"
                    /\ p # base /\ IsUnder(p, base)
                    /\ \E k \in 1..Len(includes) : ReSearch(includes[k], p)
                    /\ ~\E e \in 1..Len(excludes) : ReSearch(excludes[e], p)
                    /\ ~InCheckpointDir(p)}

\* the first rule, by position, that selects path in the call that returned
FirstRuleSelecting(path) ==
    LET Selected(i) ==
            IF ret.op = "SpecManager.collect_notebook_paths"
            THEN SeqRange(ManagerRule(managerSpec, i, REPOS_DIR, fs, ret.args[1]))
            ELSE SeqRange(ProcessorRule(spec, i, repos_to_setup, fs, ret.args[1]))
    IN  CHOOSE i \in 1..Len(spec.rules) :
            /\ path \in Selected(i)
            /\ \A j \in 1..(i - 1) : path \notin Selected(j)

\* C12: the list select returns has each path at most once, and the paths
\* are in the order of the first rule that selects them.
C12_SelectedOnceInFirstSeenOrder ==
    pc = "selected" =>
        /\ NoDuplicates(ret.value)
        /\ \A a, b \in 1..Len(ret.value) :
               a < b => FirstRuleSelecting(ret.value[a])
                            <= FirstRuleSelecting(ret.value[b])

(***************************************************************************)
(* Import extraction on its own: extract_imports on lists of notebook      *)
(* paths, with repeats, over the notebooks on disk.                        *)
(***************************************************************************)
MaxPaths == 3

PKG_NP == <<"n", "p">>

PKG_AP == <<"a", "p">>

PKG_ZZ == <<"z", "z">>

Packages == {PKG_NP, PKG_AP, PKG_ZZ}

ImportLine(module) == [stmt |-> "import", module |-> module]

FromLine(module) == [stmt |-> "from", module |-> module]

OtherLine == [stmt |-> "other", module |-> <<>>]

NotebookOf(lines) == [json |-> "ok", lines |-> lines]

\* the notebooks on disk: NB_C is not JSON in the first, and is not there
\* in the second
ExtractFileSystems ==
    {[p \in {NB_A, NB_B, NB_C} |->
         CASE p = NB_A -> NotebookOf(<<ImportLine(<<PKG_NP>>), OtherLine,
                                       FromLine(<<PKG_ZZ, <<"s", "u", "b">>>>)>>)
           [] p = NB_B -> NotebookOf(<<FromLine(<<PKG_AP, <<"i", "o">>>>),
                                       ImportLine(<<PKG_NP, <<"f", "f", "t">>>>),
                                       ImportLine(<<<<"o", "s">>>>)>>)
           [] OTHER    -> [json |-> "bad", lines |-> <<>>]],
     [p \in {NB_A, NB_B} |->
         CASE p = NB_A -> NotebookOf(<<ImportLine(<<PKG_ZZ>>), ImportLine(<<PKG_AP>>)>>)
           [] OTHER    -> NotebookOf(<<ImportLine(<<PKG_AP>>), ImportLine(<<PKG_AP>>)>>)]}

InitExtract ==
    /\ ValidatorIdle
    /\ ManagerIdle
    /\ StoreIdle
    /\ WorkflowIdle
    /\ clone = FALSE
    /\ fs \in ExtractFileSystems
    /\ fs0 = fs
    /\ repos_to_setup = EmptyMap
    /\ urlsArg = <<>>
    /\ vcsLog = <<>>
    /\ resolveLog = <<>>
    /\ pc = "extract_idle"
    /\ ret = NoRet

\* notebook_processor.extract_imports(notebook_paths)
ExtractImportsCall ==
    /\ pc = "extract_idle"
    /\ \E paths \in SeqsUpTo({NB_A, NB_B, NB_C}, MaxPaths) :
       \E order \in IterationOrders(paths), importOrder \in Perms(Packages) :
           LET r == ExtractLoop(order, 1, fs, importOrder, <<>>)
           IN  /\ urlsArg' = paths
               /\ ret' = IF r.raised # ""
                         THEN Raised("extract_imports", <<order, importOrder>>, r.raised)
                         ELSE Ret("extract_imports", <<order, importOrder>>, r.value)
    /\ pc' = "extracted"
    /\ UNCHANGED <<validatorVars, managerVars, savedFile, lastStored, clone,
                   repos_to_setup, fs, fs0, vcsLog, resolveLog, workflowVars>>

NextExtract == ExtractImportsCall

SpecExtract == InitExtract /\ [][NextExtract]_vars

\* the notebooks of the argument that are there and are JSON
Readable(paths) == {p \in SeqRange(paths) : p \in DOMAIN fs /\ fs[p].json = "ok"}

\* C13: what extract returns depends only on the set of paths it is given,
\* not on their order or repetition: its keys are the packages imported by
\* the readable notebooks of the set, each key once, and each key's value
\* lists exactly the notebooks that import it, each once.
C13_ExtractOrderIndependent ==
    ret.op = "extract_imports" =>
        /\ ret.raised # "" <=> \E p \in SeqRange(urlsArg) : p \notin DOMAIN fs
        /\ ret.raised = "" =>
               /\ NoDuplicates(Keys(ret.value))
               /\ SeqRange(Keys(ret.value)) =
                      UNION {ExtractImportsFromNotebook(fs[p]) : p \in Readable(urlsArg)}
               /\ \A i \in 1..Len(ret.value) :
                      /\ NoDuplicates(ret.value[i].value)
                      /\ SeqRange(ret.value[i].value) =
                             {p \in Readable(urlsArg) :
                                 ret.value[i].key \in ExtractImportsFromNotebook(fs[p])}

\* a list with a repeated path, given out of alphabetical order, whose two
\* notebooks share a package
C13_Witness ==
    /\ ret.op = "extract_imports"
    /\ ret.raised = ""
    /\ urlsArg = <<NB_B, NB_A, NB_B>>
    /\ \E i \in 1..Len(ret.value) : Len(ret.value[i].value) = 2

\* C20: the package names extract returns are in ascending sorted order.
C20_ExtractKeysSorted ==
    (ret.op = "extract_imports" /\ ret.raised = "") =>
        \A i, j \in 1..Len(ret.value) :
            i < j => StrLess(ret.value[i].key, ret.value[j].key)

MaxNotebooks == 5

MaxJobs == 2

Digits == <<"1", "2", "3", "4", "5", "6", "7", "8", "9">>

\* the i-th notebook: the even ones are under t/
NbPath(i) == PathJoin(IF i % 2 = 0 THEN T_DIR ELSE NB_DIR, <<Digits[i]>> \o IPYNB)

\* config.test: set without a pattern, or a pattern
TestSettings ==
    {[isStr |-> FALSE, patterns |-> <<>>],
     [isStr |-> TRUE, patterns |-> <<<<"/", "t", "/">>>>]}

InitTest ==
    /\ ValidatorIdle
    /\ ManagerIdle
    /\ StoreIdle
    /\ RepoIdle
    /\ config = [NoConfig EXCEPT !.test = TRUE]
    /\ result = "running"
    /\ \E n \in 0..MaxNotebooks : notebook_paths = [i \in 1..n |-> NbPath(i)]
    /\ test_imports = <<>>
    /\ started = <<>>
    /\ failedAt = "none"
    /\ used = [install |-> Unused, test_imports |-> Unused, test_notebooks |-> Unused]
    /\ \E jobs \in 1..MaxJobs, test \in TestSettings :
           testRun = [NoTestRun EXCEPT !.jobs = jobs, !.filter = test]
    /\ process = NotExited
    /\ pc = "test_new"
    /\ ret = NoRet

\* _test_notebooks up to the call of tester.test_notebooks
TestBegin ==
    /\ pc = "test_new"
    /\ LET filtered_notebooks == FilteredNotebooks(notebook_paths, testRun.filter)
       IN  testRun' = [testRun EXCEPT !.paths = filtered_notebooks,
                                      !.status = [i \in DOMAIN filtered_notebooks |->
                                                     "pending"]]
    /\ pc' = "testing"
    /\ UNCHANGED <<validatorVars, managerVars, savedFile, lastStored, repoVars,
                   config, result, notebook_paths, test_imports, started, failedAt,
                   used, process, ret>>

\* the tester starts the next notebook when fewer than jobs are running
TestLaunch ==
    /\ pc = "testing"
    /\ Running(testRun.status) < testRun.jobs
    /\ \E i \in 1..Len(testRun.status) :
           /\ testRun.status[i] = "pending"
           /\ \A j \in 1..(i - 1) : testRun.status[j] # "pending"
           /\ testRun' = [testRun EXCEPT !.status[i] = "running"]
    /\ UNCHANGED <<validatorVars, managerVars, savedFile, lastStored, repoVars,
                   config, result, notebook_paths, test_imports, started, failedAt,
                   used, process, ret, pc>>

\* a running notebook ends: it passed, it raised, or its timeout expired
TestFinish ==
    /\ pc = "testing"
    /\ \E i \in 1..Len(testRun.status), outcome \in FinishedStatuses :
           /\ testRun.status[i] = "running"
           /\ testRun' = [testRun EXCEPT !.status[i] = outcome]
    /\ UNCHANGED <<validatorVars, managerVars, savedFile, lastStored, repoVars,
                   config, result, notebook_paths, test_imports, started, failedAt,
                   used, process, ret, pc>>

\* every notebook has ended: tester.test_notebooks and _test_notebooks return
TestEnd ==
    /\ pc = "testing"
    /\ \A i \in 1..Len(testRun.status) : testRun.status[i] \in FinishedStatuses
    /\ ret' = Ret("_test_notebooks", <<>>,
                  TestNotebooksReturn(TesterResult(testRun.status)))
    /\ pc' = "test_done"
    /\ UNCHANGED <<validatorVars, managerVars, savedFile, lastStored, repoVars,
                   workflowVars>>

NextTest == TestBegin \/ TestLaunch \/ TestFinish \/ TestEnd

SpecTest == InitTest /\ [][NextTest]_vars

\* C14: the test run attempts every selected notebook whatever failed
\* before, at most jobs at a time, and when it returns every notebook has
\* ended with an outcome of its own and the result is success exactly when
\* every notebook passed.
C14_EveryNotebookAttempted ==
    /\ Running(testRun.status) <= testRun.jobs
    /\ pc = "test_done" =>
           /\ testRun.paths = FilteredNotebooks(notebook_paths, testRun.filter)
           /\ \A i \in 1..Len(testRun.status) : testRun.status[i] \in FinishedStatuses
           /\ ret.value = (\A i \in 1..Len(testRun.status) :
                               testRun.status[i] = "passed")

\* five notebooks, two jobs, the third timed out and the others passed
C14_Witness ==
    /\ pc = "test_done"
    /\ testRun.jobs = 2
    /\ testRun.status = <<"passed", "passed", "timed_out", "passed", "passed">>
    /\ ret.value = FALSE

(***************************************************************************)
(* The injector on its own: inject, and inject once more, on a manifest    *)
(* whose outputs do not change in between.                                 *)
(***************************************************************************)
InjectDoc == Manifest(FullHeader(URL_NB), <<DefaultRule>>)

\* the values an output may hold; the last is a list of Path objects
InjectValues ==
    {NoneValue,
     [kind |-> "dict", items |-> <<StrItem("name: v"), StrItem("channels: c")>>],
     ListOf(<<"numpy", "scipy">>),
     [kind |-> "str", items |-> <<StrItem("numpy==2.0")>>],
     [kind |-> "list", items |-> <<PathItem("/r/nb/a.ipynb")>>]}

InjectFields == {InjectTargets(InjectDoc)[i][1] : i \in 1..5}

\* the values a field is given: the pipeline stores lists, a mapping for the
\* environment spec, and no repository URLs
InjectValuesOf(field) ==
    CASE field = "notebook_repo_urls" -> {v \in InjectValues : v.kind \in {"none", "list"}}
      [] field = "mamba_spec" -> {v \in InjectValues : v.kind \in {"none", "dict"}}
      [] field = "package_versions" -> {v \in InjectValues : v.kind \in {"str", "list"}}
      [] field = "test_imports" -> {v \in InjectValues : v.kind \in {"list"}}
      [] field = "test_notebooks" -> {v \in InjectValues : v.kind \in {"none", "list"}}

InjectFiles == {InjectTargets(InjectDoc)[i][2] : i \in 1..5}

\* a manifest whose outputs hold the fields that are not None in values
WithOutputs(doc, values) ==
    [doc EXCEPT !.keys = @ \cup {"out"},
                !.out = [k \in {f \in DOMAIN values : values[f] # NoneValue} |-> values[k]]]

InjectDirs ==
    DirsFound({REPOS_DIR, EnvironmentsPath(InjectDoc), KernelPath(InjectDoc),
               TestPath(InjectDoc)})

\* the file systems inject starts in: the directories of the deployment
\* without artifact files, with artifact files of an earlier injection, and
\* without the tests directory
InjectFileSystems ==
    {InjectDirs,
     InjectDirs @@ [p \in InjectFiles |-> <<"stale", "\n">>],
     DirsFound({REPOS_DIR, EnvironmentsPath(InjectDoc), KernelPath(InjectDoc)})}

InitInject ==
    /\ ValidatorIdle
    /\ StoreIdle
    /\ WorkflowIdle
    /\ \E values \in [InjectFields -> InjectValues] :
           /\ \A f \in InjectFields : values[f] \in InjectValuesOf(f)
           /\ managerSpec = WithOutputs(InjectDoc, values)
    /\ isValidated \in BOOLEAN
    /\ clone = FALSE
    /\ repos_to_setup = EmptyMap
    /\ fs \in InjectFileSystems
    /\ fs0 = fs
    /\ urlsArg = <<>>
    /\ vcsLog = <<>>
    /\ resolveLog = <<>>
    /\ pc = "inject_new"
    /\ ret = NoRet

\* injector.inject()
InjectFirst ==
    /\ pc = "inject_new"
    /\ LET r == InjectAll(managerSpec, isValidated, fs)
       IN  /\ fs' = r.fs
           /\ ret' = IF r.raised # "" THEN Raised("inject", <<>>, r.raised)
                     ELSE Ret("inject", <<>>, TRUE)
    /\ fs0' = fs
    /\ pc' = "injected_once"
    /\ UNCHANGED <<validatorVars, managerVars, savedFile, lastStored, clone,
                   repos_to_setup, urlsArg, vcsLog, resolveLog, workflowVars>>

\* injector.inject() once more; fs0 keeps the file system of before
InjectAgain ==
    /\ pc = "injected_once"
    /\ LET r == InjectAll(managerSpec, isValidated, fs)
       IN  /\ fs' = r.fs
           /\ ret' = IF r.raised # "" THEN Raised("inject", <<>>, r.raised)
                     ELSE Ret("inject", <<>>, TRUE)
    /\ fs0' = fs
    /\ pc' = "injected_twice"
    /\ UNCHANGED <<validatorVars, managerVars, savedFile, lastStored, clone,
                   repos_to_setup, urlsArg, vcsLog, resolveLog, workflowVars>>

NextInject == InjectFirst \/ InjectAgain

SpecInject == InitInject /\ [][NextInject]_vars

\* C15: inject run twice in a row on unchanged outputs leaves every
\* artifact file with the content it had after the first run, and after an
\* inject that completed each of the five files holds what its output value
\* alone determines: a mapping as a structured document, a sequence as its
\* items joined by newlines, a scalar as it is.
C15_InjectIdempotent ==
    /\ pc = "injected_twice" => fs = fs0
    /\ (pc \in {"injected_once", "injected_twice"} /\ ret.raised = "") =>
           \A i \in 1..Len(InjectTargets(managerSpec)) :
               LET field == InjectTargets(managerSpec)[i][1]
                   where == InjectTargets(managerSpec)[i][2]
                   obj   == GetOutputData(managerSpec, field, NoneValue)
               IN  /\ where \in DOMAIN fs
                   /\ obj.kind = "dict" => fs[where] = YamlDump(obj.items)
                   /\ obj.kind = "list" => fs[where] = JoinLines(obj.items)
                   /\ obj.kind = "str" => fs[where] = <<obj.items[1].text>>

\* a second injection that completed, with a mapping, a sequence and a
\* scalar among the outputs
C15_Witness ==
    /\ pc = "injected_twice"
    /\ ret.raised = ""
    /\ fs[EnvYml(managerSpec)] = <<"name: v", "\n", "channels: c", "\n">>
    /\ fs[EnvPip(managerSpec)] = <<"numpy==2.0">>
    /\ fs[PathJoin(TestPath(managerSpec), IMPORTS)] = <<"numpy", "\n", "scipy">>

(***************************************************************************)
(* The command-line process (cli.py main): the workflow run, then the      *)
(* summary of the log counters, then the exit.  process.exit holds the     *)
(* exit status once the process has ended.                                 *)
(***************************************************************************)
ExitStatus_AlwaysZero(success) == 0

\* "sys.exit(0 if success else 1)"
ExitStatus(success) == IF success THEN 0 ELSE 1

\* curator.print_log_counters(), after curator.main() has returned
PrintLogCounters ==
    /\ pc = "done"
    /\ process' = [process EXCEPT !.printed = TRUE]
    /\ pc' = "summary_printed"
    /\ UNCHANGED <<validatorVars, managerVars, savedFile, lastStored, repoVars,
                   config, result, notebook_paths, test_imports, started, failedAt,
                   used, testRun, ret>>

\* sys.exit
SysExit ==
    /\ pc = "summary_printed"
    /\ process' = [process EXCEPT !.exit = <<ExitStatus(result = "True")>>]
    /\ pc' = "exited"
    /\ UNCHANGED <<validatorVars, managerVars, savedFile, lastStored, repoVars,
                   config, result, notebook_paths, test_imports, started, failedAt,
                   used, testRun, ret>>

NextCli == Next \/ PrintLogCounters \/ SysExit

SpecCli == InitWorkflow /\ [][NextCli]_vars

\* C16: the run ends with one boolean result, which is success only if no
\* stage that ran failed; a stage that raised makes the result a failure and
\* the run still ends normally; the process exits with status 0 exactly when
\* the result is success, and the summary of the log counters has been
\* printed before the exit in both cases.
C16_SingleResultAndExitStatus ==
    /\ pc \in {"done", "summary_printed", "exited"} =>
           /\ result \in {"True", "False"}
           /\ result = "True" => failedAt = "none"
    /\ process.exit # <<>> =>
           /\ pc = "exited"
           /\ process.printed
           /\ process.exit \in {<<0>>, <<1>>}
           /\ process.exit = <<0>> <=> result = "True"

\* the injection raised: the process has printed the summary and exited
\* with status 1
C16_Witness ==
    /\ pc = "exited"
    /\ failedAt = "inject"
    /\ process = [printed |-> TRUE, exit |-> <<1>>]

(***************************************************************************)
(* The order and the number of the reported violations (checked under      *)
(* SpecValidate).                                                          *)
(***************************************************************************)
\* the violations of a document in one category
ViolationsIn(doc, category) ==
    CASE category = "missing_top" ->
            {k \in SeqRange(REQUIRED_TOP) : k \notin doc.keys}
      [] category = "unknown_top" ->
            {k \in doc.keys : k \notin ALLOWED_TOP}
      [] category = "missing_header" ->
            {k \in SeqRange(REQUIRED_HEADER) : k \notin DOMAIN doc.header}
      [] category = "unknown_header" ->
            {k \in DOMAIN doc.header : k \notin ALLOWED_HEADER}
      [] category = "unknown_selection" ->
            UNION {{<<i, k>> : k \in {key \in DOMAIN doc.rules[i] :
                                          key \notin ALLOWED_SELECTION}} :
                       i \in 1..Len(doc.rules)}

\* the categories in the order the specification gives them
CategoryOrder ==
    <<"missing_top", "unknown_top", "missing_header", "unknown_header",
      "unknown_selection">>

\* the first category, in that order, in which the document has a violation
FirstFailingCategory(doc) ==
    LET failing == {i \in 1..Len(CategoryOrder) :
                        ViolationsIn(doc, CategoryOrder[i]) # {}}
    IN  CategoryOrder[CHOOSE i \in failing : \A j \in failing : i <= j]

\* C17: a failed validation reports the first failing category in the order
\* required top-level keys, unknown top-level keys, required header fields,
\* unknown header keys, unknown selection-rule keys; a header that lacks a
\* required field and holds an unknown key is reported as lacking the field.
C17_CategoriesInOrder ==
    (ret.op = "validate_spec" /\ ~ret.value) =>
        /\ ret.errors # <<>>
        /\ ret.errors[1] = FirstFailingCategory(spec)

\* C18: a failed validation reports every violation of the category it
\* failed in: as many error lines as the document has violations there.
C18_AllViolationsOfCategoryReported ==
    (ret.op = "validate_spec" /\ ~ret.value) =>
        /\ ret.errors # <<>>
        /\ Len(ret.errors) = Cardinality(ViolationsIn(spec, ret.errors[1]))

(***************************************************************************)
(* Reuse-only mode (checked under SpecRepo).                               *)
(***************************************************************************)
\* the local copy the specification gives a URL: the path a file:// URL
\* names, the clone directory of any other URL
LocalCopyOf(repo_url) ==
    IF StartsWith(repo_url, FILE_SCHEME) THEN PathOf(SliceFrom(repo_url, 7))
    ELSE CloneDir(repo_url)

\* C19: without the clone option no git command is run, and a URL resolves
\* exactly when its local copy exists: a remote URL to its clone directory
\* under the repositories directory, a file:// URL to the path it names.
C19_ReuseOnlyResolvesLocalCopy ==
    (pc = "repo_set_up" /\ ~clone) =>
        /\ vcsLog = <<>>
        /\ \A i \in 1..Len(resolveLog) :
               LET local_copy == LocalCopyOf(resolveLog[i].url)
               IN  resolveLog[i].path =
                       IF Exists(local_copy, fs0) THEN local_copy ELSE NONE

(***************************************************************************)
(* Compiling and injecting in turn: _handle_requirements_compilation and   *)
(* injector.inject, called one after the other in any order on one         *)
(* deployment directory.  config holds repos_dir here; started lists the   *)
(* calls made.                                                             *)
(***************************************************************************)
MaxCalls == 3

\* "r", a repos_dir relative to the current directory (as the default of
\* --repos-dir is)
REL_REPOS_DIR == <<"r">>

RecompileDoc == Manifest(FullHeader(URL_NB), <<DefaultRule>>)

\* the notebook of the run, in the clone of its repository
RecompileNotebook(repos_dir) ==
    PathJoin(PathJoin(repos_dir, RepoName(URL_NB)), <<"a">> \o IPYNB)

\* the files of a deployment beside the injected ones: requirement files of
\* the notebook repository, of the common environment and of the kernel
RecompileFiles(repos_dir) ==
    LET spi == SpiPaths(repos_dir, RecompileDoc)
    IN  {PathJoin(Dirname(RecompileNotebook(repos_dir)), REQUIREMENTS_TXT),
         PathJoin(spi.common_path, <<"c">> \o DOT_PIP),
         PathJoin(spi.kernel_path, <<"x">> \o DOT_PIP)}

RecompileDirs(repos_dir) ==
    LET spi == SpiPaths(repos_dir, RecompileDoc)
    IN  DirsFound({repos_dir, Dirname(RecompileNotebook(repos_dir)), spi.common_path,
                   Dirname(spi.kernel_path), spi.kernel_path,
                   Dirname(spi.targets[4][2])})

\* the deployment with and without requirement files, with and without the
\* files of an earlier injection
RecompileFileSystems(repos_dir) ==
    LET spi == SpiPaths(repos_dir, RecompileDoc)
    IN  {RecompileDirs(repos_dir) @@ [p \in files \cup stale |-> <<"old", "\n">>] :
            files \in {{}, RecompileFiles(repos_dir)},
            stale \in {{}, {spi.env_pip, spi.env_yml}}}

\* the outputs a loaded manifest may bring along
RecompileOutputs ==
    {EmptyMap,
     [k \in {"notebook_repo_urls", "mamba_spec", "package_versions", "test_imports",
             "test_notebooks"} |->
         IF k = "mamba_spec" THEN [kind |-> "dict", items |-> <<StrItem("old-env")>>]
         ELSE ListOf(<<"old">>)]}

InitRecompile ==
    /\ ManagerIdle
    /\ StoreIdle
    /\ \E repos_dir \in {REPOS_DIR, REL_REPOS_DIR}, compile \in BOOLEAN :
           /\ config = [NoConfig EXCEPT !.compile = compile, !.inject_spi = TRUE]
                           @@ [repos_dir |-> repos_dir]
           /\ fs \in RecompileFileSystems(repos_dir)
           /\ notebook_paths = <<RecompileNotebook(repos_dir)>>
    /\ \E out \in RecompileOutputs :
           spec = IF out = EmptyMap THEN RecompileDoc
                  ELSE [RecompileDoc EXCEPT !.keys = @ \cup {"out"}, !.out = out]
    /\ loaded = spec
    /\ fs0 = fs
    /\ clone = FALSE
    /\ repos_to_setup = EmptyMap
    /\ urlsArg = <<>>
    /\ vcsLog = <<>>
    /\ resolveLog = <<>>
    /\ result = "running"
    /\ test_imports = <<>>
    /\ started = <<>>
    /\ failedAt = "none"
    /\ used = [install |-> Unused, test_imports |-> Unused, test_notebooks |-> Unused]
    /\ testRun = NoTestRun
    /\ process = NotExited
    /\ pc = "recompile"
    /\ ret = NoRet

\* the files a search for requirement files can meet
RequirementFilesIn(files) ==
    {p \in DOMAIN files : \E suffix \in {DOT_PIP, DOT_CONDA, REQUIREMENTS_TXT} :
                              /\ Len(LastSegment(p)) >= Len(suffix)
                              /\ EndsWith(LastSegment(p), suffix)}

\* two orders in which directories list these files: by name, and backwards
ListingOrders(S) ==
    {SortedStrs(S), [i \in 1..Cardinality(S) |-> SortedStrs(S)[Cardinality(S) + 1 - i]]}

\* _handle_requirements_compilation(notebook_paths); ret.args holds the
\* requirement files gathered.  The resolver's outcome is an input: it fails
\* or gives the pinned packages; without requirement files its result is
\* that of logger.warning.
RecompileCompile ==
    /\ pc = "recompile"
    /\ Len(started) < MaxCalls
    /\ started' = Append(started, "compile")
    /\ fs0' = fs
    /\ \E order \in ListingOrders(RequirementFilesIn(fs)), resolved \in BOOLEAN :
           LET pip   == FindSpiPipRequirementsFiles(config.repos_dir, spec, fs, order)
               requirements_files ==
                   FindRequirementsFiles(notebook_paths, fs, order) \o pip.files
               mamba == FindSpiMambaRequirementsFiles(config.repos_dir, spec, pip.fs,
                                                      order)
           IN  IF pip.raised # ""
               THEN /\ fs' = pip.fs
                    /\ ret' = Raised("_handle_requirements_compilation", <<>>, pip.raised)
                    /\ UNCHANGED spec
               ELSE IF ~config.compile
               THEN /\ fs' = pip.fs
                    /\ ret' = Ret("_handle_requirements_compilation",
                                  <<requirements_files>>, TRUE)
                    /\ UNCHANGED spec
               ELSE IF ~resolved
               THEN /\ fs' = pip.fs
                    /\ ret' = Ret("_handle_requirements_compilation",
                                  <<requirements_files>>, FALSE)
                    /\ UNCHANGED spec
               ELSE /\ fs' = mamba.fs
                    /\ ret' = Ret("_handle_requirements_compilation",
                                  <<requirements_files>>, TRUE)
                    /\ spec' = StoreCompileOutputs(
                                   spec,
                                   IF requirements_files = <<>>
                                   THEN [kind |-> "bool", items |-> <<>>]
                                   ELSE ListOf(<<"numpy==2.0">>),
                                   [kind |-> "dict", items |-> <<StrItem("new-env")>>],
                                   PathList(requirements_files), PathList(mamba.files))
    /\ UNCHANGED <<loaded, managerVars, savedFile, lastStored, clone, repos_to_setup,
                   urlsArg, vcsLog, resolveLog, config, result, notebook_paths,
                   test_imports, failedAt, used, testRun, process, pc>>

\* injector.inject(self.spec)
RecompileInject ==
    /\ pc = "recompile"
    /\ Len(started) < MaxCalls
    /\ started' = Append(started, "inject")
    /\ fs0' = fs
    /\ LET r == InjectLoop(SpiPaths(config.repos_dir, spec).targets, 1, spec, fs)
       IN  /\ fs' = r.fs
           /\ ret' = IF r.raised # "" THEN Raised("inject", <<>>, r.raised)
                     ELSE Ret("inject", <<>>, TRUE)
    /\ UNCHANGED <<validatorVars, managerVars, savedFile, lastStored, clone,
                   repos_to_setup, urlsArg, vcsLog, resolveLog, config, result,
                   notebook_paths, test_imports, failedAt, used, testRun, process, pc>>

NextRecompile == RecompileCompile \/ RecompileInject

SpecRecompile == InitRecompile /\ [][NextRecompile]_vars

\* the files inject writes
InjectedFiles == {SpiPaths(config.repos_dir, spec).targets[i][2] : i \in 1..5}

\* C22: when the requirement files of a compile have been gathered, the
\* injected <kernel>.pip is gone and no file that inject writes is among
\* them, whatever was compiled and injected before; and once the compile
\* has gathered the environment files too, the injected <kernel>.yml is
\* gone as well.
C22_InjectedFilesNotRequirements ==
    (ret.op = "_handle_requirements_compilation" /\ ret.raised = "") =>
        /\ SpiPaths(config.repos_dir, spec).env_pip \notin DOMAIN fs
        /\ SeqRange(ret.args[1]) \cap InjectedFiles = {}
        /\ (config.compile /\ ret.value) =>
               SpiPaths(config.repos_dir, spec).env_yml \notin DOMAIN fs

\* compile, inject, compile: the injection wrote the pinned packages of the
\* first compile to <kernel>.pip, and the second compile gathered the three
\* other requirement files
C22_Witness ==
    /\ started = <<"compile", "inject", "compile">>
    /\ ret.op = "_handle_requirements_compilation"
    /\ ret.raised = ""
    /\ ret.value
    /\ SpiPaths(config.repos_dir, spec).env_pip \in DOMAIN fs0
    /\ fs0[SpiPaths(config.repos_dir, spec).env_pip] = <<"numpy==2.0">>
    /\ Len(ret.args[1]) = 3

(***************************************************************************)
(* EnvironmentManager on its own (environment.py): calls of its lifecycle  *)
(* operations, one after the other.  The outcome of a tool invocation is   *)
(* an input: exit is <<status>>, or <<>> when the tool did not end within  *)
(* the timeout; stdout is what it printed.  A call's ret.args holds the    *)
(* commands it ran and the outcome of the tool; ret.value is the truth     *)
(* value of what it returned.                                              *)
(***************************************************************************)
MaxEnvCalls == 2

ToolExits == {<<0>>, <<1>>, <<>>}

ToolOutputs == {"", "done"}

\* curator_run: subprocess.run raises TimeoutExpired, and CalledProcessError
\* for a non-zero exit status if check; the value is result.stdout if check,
\* the result otherwise (returncode and stdout here)
CuratorRun(command, check, exit, stdout) ==
    IF exit = <<>>
    THEN [commands |-> <<command>>, raised |-> "TimeoutExpired", returncode |-> <<>>,
          stdout |-> ""]
    ELSE IF check /\ exit # <<0>>
    THEN [commands |-> <<command>>, raised |-> "CalledProcessError",
          returncode |-> exit, stdout |-> ""]
    ELSE [commands |-> <<command>>, raised |-> "", returncode |-> exit,
          stdout |-> stdout]

\* handle_result(result, fail, success)
HandleResult(returncode, success) ==
    IF returncode # <<0>> THEN LoggerError
    ELSE IF success # "" THEN LoggerInfo ELSE TRUE

\* what a call gives back: the commands run, the exception raised if any,
\* the truth value of the value returned
EnvReturn(run, value) ==
    [commands |-> run.commands, raised |-> run.raised,
     value |-> IF run.raised # "" THEN FALSE ELSE value]

NoRun == [commands |-> <<>>, raised |-> "", returncode |-> <<>>, stdout |-> ""]

\* create_environment: the tool is run, with check, only if no spec is given;
\* what it returns is not looked at
CreateEnvironment(has_spec, exit, stdout) ==
    IF has_spec THEN EnvReturn(NoRun, TRUE)
    ELSE EnvReturn(CuratorRun("micromamba create", TRUE, exit, stdout), TRUE)

\* delete_environment: "return self.curator_run(command)", the tool's output
DeleteEnvironment(exit, stdout) ==
    EnvReturn(CuratorRun("micromamba env remove", TRUE, exit, stdout), stdout # "")

\* install_packages
EnvInstallPackages(package_versions, exit, stdout, warning) ==
    IF package_versions = <<>> THEN EnvReturn(NoRun, warning)
    ELSE EnvReturn(CuratorRun("uv pip install", FALSE, exit, stdout),
                   HandleResult(exit, "Package installation completed successfully:"))

\* test_imports
EnvTestImports(exit, stdout) ==
    EnvReturn(CuratorRun("test-imports", FALSE, exit, stdout),
              HandleResult(exit, "All imports succeeded."))

\* _register_environment
RegisterEnvironment(exit, stdout) ==
    EnvReturn(CuratorRun("ipykernel install", FALSE, exit, stdout),
              HandleResult(exit, ""))

\* _unregister_environment
UnregisterEnvironment(exit, stdout) ==
    EnvReturn(CuratorRun("jupyter kernelspec uninstall", FALSE, exit, stdout),
              HandleResult(exit, ""))

EnvOps ==
    {"create_environment", "_register_environment", "install_packages",
     "test_imports", "_unregister_environment", "delete_environment"}

InitEnv ==
    /\ ValidatorIdle
    /\ ManagerIdle
    /\ StoreIdle
    /\ RepoIdle
    /\ WorkflowIdle
    /\ pc = "env"
    /\ ret = NoRet

EnvCreate ==
    \E exit \in ToolExits, stdout \in ToolOutputs, has_spec \in BOOLEAN :
        LET r == CreateEnvironment(has_spec, exit, stdout)
        IN  /\ pc = "env"
            /\ Len(started) < MaxEnvCalls
            /\ started' = Append(started, "create_environment")
            /\ ret' = [Ret("create_environment", <<r.commands, exit>>, r.value)
                EXCEPT !.raised = r.raised]
            /\ UNCHANGED <<validatorVars, managerVars, savedFile, lastStored, repoVars,
                config, result, notebook_paths, test_imports, failedAt, used,
                testRun, process, pc>>

EnvRegister ==
    \E exit \in ToolExits, stdout \in ToolOutputs :
        LET r == RegisterEnvironment(exit, stdout)
        IN  /\ pc = "env"
            /\ Len(started) < MaxEnvCalls
            /\ started' = Append(started, "_register_environment")
            /\ ret' = [Ret("_register_environment", <<r.commands, exit>>, r.value)
                EXCEPT !.raised = r.raised]
            /\ UNCHANGED <<validatorVars, managerVars, savedFile, lastStored, repoVars,
                config, result, notebook_paths, test_imports, failedAt, used,
                testRun, process, pc>>

EnvInstall ==
    \E exit \in ToolExits, stdout \in ToolOutputs, warning \in BOOLEAN :
    \E package_versions \in CompileResults :
        LET r == EnvInstallPackages(package_versions, exit, stdout, warning)
        IN  /\ pc = "env"
            /\ Len(started) < MaxEnvCalls
            /\ started' = Append(started, "install_packages")
            /\ ret' = [Ret("install_packages", <<r.commands, exit>>, r.value)
                EXCEPT !.raised = r.raised]
            /\ UNCHANGED <<validatorVars, managerVars, savedFile, lastStored, repoVars,
                config, result, notebook_paths, test_imports, failedAt, used,
                testRun, process, pc>>

EnvTest ==
    \E exit \in ToolExits, stdout \in ToolOutputs :
        LET r == EnvTestImports(exit, stdout)
        IN  /\ pc = "env"
            /\ Len(started) < MaxEnvCalls
            /\ started' = Append(started, "test_imports")
            /\ ret' = [Ret("test_imports", <<r.commands, exit>>, r.value)
                EXCEPT !.raised = r.raised]
            /\ UNCHANGED <<validatorVars, managerVars, savedFile, lastStored, repoVars,
                config, result, notebook_paths, test_imports, failedAt, used,
                testRun, process, pc>>

EnvUnregister ==
    \E exit \in ToolExits, stdout \in ToolOutputs :
        LET r == UnregisterEnvironment(exit, stdout)
        IN  /\ pc = "env"
            /\ Len(started) < MaxEnvCalls
            /\ started' = Append(started, "_unregister_environment")
            /\ ret' = [Ret("_unregister_environment", <<r.commands, exit>>, r.value)
                EXCEPT !.raised = r.raised]
            /\ UNCHANGED <<validatorVars, managerVars, savedFile, lastStored, repoVars,
                config, result, notebook_paths, test_imports, failedAt, used,
                testRun, process, pc>>

EnvDelete ==
    \E exit \in ToolExits, stdout \in ToolOutputs :
        LET r == DeleteEnvironment(exit, stdout)
        IN  /\ pc = "env"
            /\ Len(started) < MaxEnvCalls
            /\ started' = Append(started, "delete_environment")
            /\ ret' = [Ret("delete_environment", <<r.commands, exit>>, r.value)
                EXCEPT !.raised = r.raised]
            /\ UNCHANGED <<validatorVars, managerVars, savedFile, lastStored, repoVars,
                config, result, notebook_paths, test_imports, failedAt, used,
                testRun, process, pc>>

NextEnv ==
    \/ EnvCreate
    \/ EnvRegister
    \/ EnvInstall
    \/ EnvTest
    \/ EnvUnregister
    \/ EnvDelete

SpecEnv == InitEnv /\ [][NextEnv]_vars

\* C23: a call of a lifecycle operation runs the tool exactly once, and when
\* the tool has exited the call raises nothing and returns success exactly
\* when the exit status is zero.
C23_OneInvocationExitStatusDecides ==
    ret.op \in EnvOps =>
        /\ Len(ret.args[1]) = 1
        /\ ret.args[2] # <<>> =>
               /\ ret.raised = ""
               /\ ret.value = (ret.args[2] = <<0>>)

(***************************************************************************)
(* Further properties of the workflow (checked under Spec).                *)
(***************************************************************************)
\* C24: in a run without compile, selection, import extraction and the
\* compilation of requirements do not run, every key of the outputs of the
\* manifest keeps the value the loaded manifest had, and no manifest file
\* is saved.
C24_NoCompileLeavesManifest ==
    ~config.compile =>
        /\ \A i \in 1..Len(started) : started[i] \notin {"select", "extract", "compile"}
        /\ loaded # EmptyDoc => OutOf(spec) = OutOf(loaded)
        /\ savedFile = NotSaved

\* C26: in a run that compiles, when the install, the import test, the
\* notebook test or the injection has started, the outputs of the manifest
\* hold the pinned packages and the environment spec of the compile and the
\* notebook paths and import names of this run, and the manifest file has
\* been written with them.
C26_OutputsSavedBeforeLaterStages ==
    (config.compile
        /\ \E i \in 1..Len(started) :
               started[i] \in {"install", "test_imports", "test", "inject"}) =>
        /\ {"package_versions", "mamba_spec", "test_notebooks", "test_imports"}
               \subseteq DOMAIN OutOf(spec)
        /\ spec.out["test_notebooks"] = ListOf(notebook_paths)
        /\ spec.out["test_imports"] = ListOf(test_imports)
        /\ InSeq("compile", started)
        /\ savedFile = [state |-> "written", doc |-> spec]

\* a compiling run on a manifest without outputs has reached its injection
\* after the install and the tests
C26_Witness ==
    /\ config.compile
    /\ "out" \notin loaded.keys
    /\ InSeq("install", started)
    /\ InSeq("test", started)
    /\ InSeq("inject", started)

(***************************************************************************)
(* The end of a run: the workflow from its install stage on, after a       *)
(* compile that succeeded.  config holds delete_env here, and the file     *)
(* system may hold the directory of the target environment.                *)
(***************************************************************************)
\* the directory of the target environment, "/e"
ENV_DIR == <<"/", "e">>

LateConfigs ==
    {c @@ [delete_env |-> d] :
        c \in {cfg \in Configs : ~cfg.init_env /\ ~cfg.clone /\ cfg.compile},
        d \in BOOLEAN}

LateFileSystems ==
    {DirsFound({REPOS_DIR, CloneDir(URL_NB), CloneDir(SPI_URL)} \cup env) :
        env \in {{}, {ENV_DIR}}}
    \cup {DirsFound({ENV_DIR})}

InitLate ==
    /\ config \in LateConfigs
    /\ clone = config.clone
    /\ fs \in LateFileSystems
    /\ fs0 = fs
    /\ repos_to_setup = [u \in {URL_NB, SPI_URL} |-> CloneDir(u)]
    /\ urlsArg = <<URL_NB, SPI_URL>>
    /\ vcsLog = <<>>
    /\ resolveLog = <<>>
    /\ ManagerIdle
    /\ lastStored = EmptyMap
    /\ \E paths \in SelectionResults \ {<<>>}, imports \in ExtractionResults \ {<<>>} :
           /\ notebook_paths = paths
           /\ test_imports = imports
           /\ loaded = CompiledManifest(FullHeader(URL_NB), <<DefaultRule>>)
           /\ spec = StoreReviseOutputs(loaded, paths, imports)
           /\ savedFile = [state |-> "written", doc |-> spec]
    /\ started = <<"load", "validate", "python_version", "repositories", "select",
                   "requirements", "compile", "extract", "revise">>
    /\ pc = StageFrom(StageIndex("revise") + 1, config)
    /\ result = IF pc = "done" THEN "True" ELSE "running"
    /\ failedAt = "none"
    /\ used = [install |-> Unused, test_imports |-> Unused, test_notebooks |-> Unused]
    /\ testRun = NoTestRun
    /\ process = NotExited
    /\ ret = NoRet

NextLate == InstallPackages \/ TestImports \/ TestNotebooks \/ Inject \/ Cleanup

SpecLate == InitLate /\ [][NextLate]_vars

\* C25: a run that went through all its stages has deleted the target
\* environment if the deletion of the environment was requested and the
\* repositories if theirs was; a run leaves alone the environment, or the
\* repositories, whose deletion was not requested.
C25_RequestedDeletionsDone ==
    /\ (pc = "done" /\ result = "True") =>
           /\ config.delete_env => ~Exists(ENV_DIR, fs)
           /\ config.cleanup => ~Exists(REPOS_DIR, fs)
    /\ ~config.delete_env => (Exists(ENV_DIR, fs) <=> Exists(ENV_DIR, fs0))
    /\ ~config.cleanup =>
           \A p \in DOMAIN fs0 \cup DOMAIN fs :
               IsUnder(p, REPOS_DIR) => p \in DOMAIN fs0 \cap DOMAIN fs

(***************************************************************************)
(* Further properties of the repository manager (checked under SpecRepo).  *)
(***************************************************************************)
\* C27: when cleanup_repos has returned and the repositories directory is
\* not there, whether it was removed or was absent before, the call has
\* reported success; and it reports success only with the directory gone.
C27_CleanupUnconditional ==
    ret.op = "cleanup_repos" =>
        /\ ~Exists(REPOS_DIR, fs) => ret.value = "True"
        /\ ret.value = "True" => ~Exists(REPOS_DIR, fs)

\* C29: when setup_repositories has returned success, every URL it was
\* given is a key of the resolved map and is mapped to a path, not to None.
C29_SuccessResolvesEveryUrl ==
    (ret.op = "setup_repositories" /\ ret.value = TRUE) =>
        \A i \in 1..Len(urlsArg) :
            /\ urlsArg[i] \in DOMAIN repos_to_setup
            /\ repos_to_setup[urlsArg[i]] # NONE


(***************************************************************************)
(* Further properties of the manager (checked under SpecManager).          *)
(***************************************************************************)
\* C28: the validated flag is set only while the document now loaded
\* satisfies the schema, and a validated-only accessor that did not raise
\* RuntimeError was called on such a document.
C28_ValidatedMeansCurrentDocumentValid ==
    /\ isValidated => (managerSpec # EmptyDoc /\ ValidateSpec(managerSpec).ok)
    /\ (ret.op = "get_repository_urls" /\ ret.raised # "RuntimeError") =>
           ValidateSpec(managerSpec).ok

(***************************************************************************)
(* Further properties of the injector (checked under SpecInject).          *)
(***************************************************************************)
\* the fields of doc whose output value _inject refuses
RefusedFields(doc) ==
    {f \in InjectFields : InjectRaises(GetOutputData(doc, f, NoneValue)) # ""}

\* C30: an inject on a manifest with an output that is missing or of an
\* unsupported type fails, and leaves every file as it was before the call:
\* none created, none emptied, none rewritten.
C30_InjectAllOrNothing ==
    (pc = "injected_once" /\ RefusedFields(managerSpec) # {}) =>
        /\ ret.raised # ""
        /\ fs = fs0

====
